---- MODULE Spec2Model ----
(***************************************************************************)
(* konbini: selective ingestion pipeline of a partial-index AppView.       *)
(*                                                                         *)
(* Spec       record router, revision guard and record handlers            *)
(*            (events.go, pgbackend.go), one op per step, with restarts.   *)
(* SpecSched  the sync engine's goroutines around the ingest path          *)
(*            (sync.go StartSyncEngine, the missing-record fetcher).       *)
(* SpecSync   one firehose consumer with cursor persistence, reconnects    *)
(*            and crashes (sync.go, seqno.go).                             *)
(* SpecGate   the relevance gate of HandleCreatePost (events.go).           *)
(* SpecRepo   concurrent GetOrCreateRepo calls (backend/backend.go).       *)
(* SpecLookup concurrent post id lookups that create placeholders.         *)
(* SpecFetch  the missing-record queue, its fetcher and the hydrators.     *)
(* SpecStop   the firehose consumer when its context is cancelled.         *)
(* SpecBackoff the reconnect loops of both backend types, with time.       *)
(* SpecWatch  the silence watchdog of a live connection (sync.go).         *)
(* SpecCursors the cursor callbacks of several streams (sync.go).           *)
(* SpecEvent  HandleEvent on commits whose ops may fail to decode.         *)
(* SpecQuote  HydratePost on posts that quote posts (hydration/post.go).   *)
(* SpecThread getPostThreadV2 (xrpc/unspecced/getPostThreadV2.go).         *)
(* SpecFetchLive SpecFetch with the feed generator caller, under fairness. *)
(* SpecCancel the reconnect loops when the parent context is cancelled.    *)
(* SpecProfile profile commits and actor hydration (hydration/actor).      *)
(* SpecNotif  notification inserts and cursor paging (listNotifications).  *)
(* SpecDup    two concurrent creates of one post (worker and fetcher).     *)
(***************************************************************************)
EXTENDS Integers, Sequences, FiniteSets, TLC

----------------------------------------------------------------------------
(* Bounds *)

\* number of ops the router handles in one explored run
MaxOps == 3

\* number of stream backends configured in the sync config
NumBackends == 2

\* number of commits each backend's stream carries (SpecSched)
MaxSchedEvents == 3

\* number of commits the relay holds (SpecSync)
MaxStreamEvents == 4

\* number of events the consumer reads from the relay in one explored run
MaxDeliveries == 6

\* number of process crashes explored
MaxRestarts == 2

\* number of handlers that append notifications at the same time (SpecNotif)
NumWriters == 2

\* number of goroutines that handle a create of the same post (SpecDup)
NumCreators == 2

\* number of goroutines calling into the backend at the same time
NumCallers == 2

\* number of calls each of them makes
MaxCalls == 2

\* number of read handlers inside the hydration layer at the same time
NumReaders == 2

\* number of hydration calls in one explored run
MaxReads == 3

\* capacity of the missingRecords channel in the explored runs
QueueCap == 2

----------------------------------------------------------------------------
(* Identifiers *)

MyDid == "did:d0"
Dids == {"did:d0", "did:d1"}

ColPost == "app.bsky.feed.post"
ColLike == "app.bsky.feed.like"
ColRepost == "app.bsky.feed.repost"
ColBlock == "app.bsky.graph.block"
ColProfile == "app.bsky.actor.profile"
ColFeedGen == "app.bsky.feed.generator"

\* An AT-URI at://<did>/<col>/<rkey>; rkey = "" stands for the two-part
\* form at://<did>/<col>, which is a valid AT-URI without a record key.
AtUri(did, col, rkey) == [did |-> did, col |-> col, rkey |-> rkey]

\* util.ParseAtUri: fails unless the URI has exactly three parts
ParseAtUriOk(uri) == uri.rkey # ""

\* Revisions are strings compared bytewise; a rev is the sequence of its
\* characters' codes, <<>> is the empty string.
RECURSIVE RevLess(_, _)
RevLess(a, b) ==
    IF b = <<>> THEN FALSE
    ELSE IF a = <<>> THEN TRUE
    ELSE IF a[1] # b[1] THEN a[1] < b[1]
    ELSE RevLess(Tail(a), Tail(b))

RevMax(a, b) == IF RevLess(a, b) THEN b ELSE a

\* the revs of the explored events: "10" < "2" as strings
Revs == {<<1, 0>>, <<2>>}

----------------------------------------------------------------------------
(* Records carried by the events of the explored streams *)

NoUri == <<>>

\* createdOk: syntax.ParseDatetimeLenient accepts the record's createdAt
FeedPost(cid, parent, root, quote, mentions) ==
    [cid |-> cid, parent |-> parent, root |-> root, quote |-> quote,
     mentions |-> mentions, subject |-> NoUri, subjectDid |-> "",
     createdOk |-> TRUE]

SubjectRec(cid, uri) ==
    [cid |-> cid, parent |-> NoUri, root |-> NoUri, quote |-> NoUri,
     mentions |-> <<>>, subject |-> <<uri>>, subjectDid |-> "",
     createdOk |-> TRUE]

DidRec(cid, did) ==
    [cid |-> cid, parent |-> NoUri, root |-> NoUri, quote |-> NoUri,
     mentions |-> <<>>, subject |-> NoUri, subjectDid |-> did,
     createdOk |-> TRUE]

MyPost == AtUri(MyDid, ColPost, "r0")

\* (repo, collection, rkey, record) of every record the streams carry
Records == {
    \* the principal's own post
    [did |-> MyDid, col |-> ColPost, rkey |-> "r0",
     rec |-> FeedPost(1, NoUri, NoUri, NoUri, <<>>)],
    \* a reply to the principal's post by a DID that is not followed
    [did |-> "did:d1", col |-> ColPost, rkey |-> "r1",
     rec |-> FeedPost(2, <<MyPost>>, <<MyPost>>, NoUri, <<>>)],
    \* a reply to the principal's post quoting a URI without record key
    [did |-> "did:d1", col |-> ColPost, rkey |-> "r2",
     rec |-> FeedPost(3, <<MyPost>>, <<MyPost>>,
                      <<AtUri("did:d1", ColPost, "")>>, <<>>)],
    \* a post of the principal quoting the reply and mentioning themself
    [did |-> MyDid, col |-> ColPost, rkey |-> "r3",
     rec |-> FeedPost(4, NoUri, NoUri,
                      <<AtUri("did:d1", ColPost, "r1")>>, <<MyDid>>)],
    [did |-> "did:d1", col |-> ColLike, rkey |-> "k1",
     rec |-> SubjectRec(5, MyPost)],
    [did |-> "did:d1", col |-> ColRepost, rkey |-> "k1",
     rec |-> SubjectRec(6, MyPost)],
    [did |-> MyDid, col |-> ColBlock, rkey |-> "b1",
     rec |-> DidRec(7, "did:d1")],
    [did |-> MyDid, col |-> ColProfile, rkey |-> "self",
     rec |-> DidRec(8, "")]
}

\* the posts of the streams explored for the relevance gate (SpecGate); the
\* author did:d1 is not followed by the principal
GateRecords == {
    \* no reply; quotes the principal's post and mentions the principal
    [did |-> "did:d1", col |-> ColPost, rkey |-> "g1",
     rec |-> FeedPost(11, NoUri, NoUri, <<MyPost>>, <<MyDid>>)],
    \* a reply in the author's own thread, quoting a post of the author
    [did |-> "did:d1", col |-> ColPost, rkey |-> "g2",
     rec |-> FeedPost(12, <<AtUri("did:d1", ColPost, "g1")>>,
                      <<AtUri("did:d1", ColPost, "g1")>>,
                      <<AtUri("did:d1", ColPost, "g9")>>, <<>>)],
    \* a reply to the principal's post in the author's thread
    [did |-> "did:d1", col |-> ColPost, rkey |-> "g3",
     rec |-> FeedPost(13, <<MyPost>>, <<AtUri("did:d1", ColPost, "g1")>>,
                      NoUri, <<>>)],
    \* a reply to the author's post in the principal's thread
    [did |-> "did:d1", col |-> ColPost, rkey |-> "g4",
     rec |-> FeedPost(14, <<AtUri("did:d1", ColPost, "g1")>>, <<MyPost>>,
                      NoUri, <<>>)],
    \* a reply to the principal's post whose reply has no root reference
    [did |-> "did:d1", col |-> ColPost, rkey |-> "g5",
     rec |-> FeedPost(15, <<MyPost>>, NoUri, NoUri, <<>>)],
    \* a reply in the principal's thread to a URI without record key
    [did |-> "did:d1", col |-> ColPost, rkey |-> "g6",
     rec |-> FeedPost(16, <<AtUri(MyDid, ColPost, "")>>, <<MyPost>>,
                      NoUri, <<>>)],
    \* a reply to the principal's post with a createdAt that does not parse
    [did |-> "did:d1", col |-> ColPost, rkey |-> "g7",
     rec |-> [FeedPost(17, <<MyPost>>, <<MyPost>>, NoUri, <<>>)
                 EXCEPT !.createdOk = FALSE]]
}

\* the profile record and the feed generator record the host of did:d1
\* serves (SpecFetch, SpecFetchLive)
FetchRecords == {
    [did |-> "did:d1", col |-> ColProfile, rkey |-> "self",
     rec |-> DidRec(21, "")],
    [did |-> "did:d1", col |-> ColFeedGen, rkey |-> "f1",
     rec |-> DidRec(22, "did:web:feed")]
}

AllRecords == Records \cup GateRecords \cup FetchRecords

Actions == {"create", "update", "delete"}

\* one op of a commit event, with the event's repo and rev
Ops == { [action |-> a, rev |-> r, did |-> x.did, col |-> x.col,
          rkey |-> x.rkey, rec |-> x.rec] :
         a \in Actions, r \in Revs, x \in Records }

----------------------------------------------------------------------------
(* State *)

VARIABLES
    db,        \* the relational tables and their id sequences
    backend,   \* PostgresBackend's in-memory fields (caches, relevance set)
    last,      \* the op handled last and the value the router returned
    nops       \* number of ops handled

\* A handler works on s = [db, b, ret]: the tables, the backend fields and
\* the value it returns ("ok" for nil, "dropped" for the revision guard's
\* nil, "error" for a non-nil error).
Cur == [db |-> db, b |-> backend, ret |-> "ok"]

NotifKindReply == "reply"
NotifKindLike == "like"
NotifKindRepost == "repost"
NotifKindMention == "mention"

MyRepoID == 1

InitDb ==
    [repos |-> {[id |-> MyRepoID, did |-> MyDid]},
     posts |-> {}, likes |-> {}, reposts |-> {}, blocks |-> {},
     profiles |-> {}, notifs |-> {}, feedGens |-> {},
     syncInfos |-> {[repo |-> MyRepoID, followsSynced |-> TRUE, rev |-> <<>>]},
     nextId |-> [repos |-> 2, posts |-> 1, likes |-> 1, reposts |-> 1,
                 blocks |-> 1, profiles |-> 1, notifs |-> 1,
                 feedGens |-> 1]]

\* the backend right after process start: empty caches, the principal's repo
\* loaded, the relevance set derived from the principal's follows
NewPostgresBackend ==
    [revCache |-> <<>>, postInfoCache |-> <<>>,
     repoCache |-> (MyDid :> MyRepoID),
     relevantDids |-> {MyDid}]

Ret(s, r) == [s EXCEPT !.ret = r]

----------------------------------------------------------------------------
(* Repo registry, placeholder posts, revision lookup, relevance *)

getOrCreateRepo(s, did) ==
    IF did \in DOMAIN s.b.repoCache THEN s
    ELSE IF \E r \in s.db.repos : r.did = did
    THEN LET r == CHOOSE r \in s.db.repos : r.did = did
         IN [s EXCEPT !.b.repoCache = (did :> r.id) @@ @]
    ELSE LET id == s.db.nextId.repos
         IN [s EXCEPT !.db.repos = @ \cup {[id |-> id, did |-> did]},
                      !.db.nextId.repos = id + 1,
                      !.b.repoCache = (did :> id) @@ @]

\* the Repo.ID getOrCreateRepo returns
RepoID(s, did) == getOrCreateRepo(s, did).b.repoCache[did]

NoPost == [ID |-> 0, Author |-> 0]

Placeholder(id, author, rkey) ==
    [id |-> id, author |-> author, rkey |-> rkey, cid |-> 0,
     notFound |-> TRUE, raw |-> 0, replyTo |-> 0, replyToUsr |-> 0,
     inThread |-> 0, reposting |-> 0]

tryLoadPostInfo(s, uid, rkey) ==
    {p \in s.db.posts : p.author = uid /\ p.rkey = rkey}

\* returns [s, ok, info]
getOrCreatePostBare(s, uri) ==
    IF ~ParseAtUriOk(uri) THEN [s |-> s, ok |-> FALSE, info |-> NoPost]
    ELSE
    LET cached(s2, info) ==
            [s |-> [s2 EXCEPT !.b.postInfoCache = (uri :> info) @@ @],
             ok |-> TRUE, info |-> info]
        load(s1, r, found) ==
            IF found = {}
            THEN cached([s1 EXCEPT
                           !.db.posts = @ \cup {Placeholder(s1.db.nextId.posts,
                                                            r, uri.rkey)},
                           !.db.nextId.posts = @ + 1],
                        [ID |-> s1.db.nextId.posts, Author |-> r])
            ELSE cached(s1, [ID |-> (CHOOSE p \in found : TRUE).id,
                             Author |-> r])
        inRepo(s1, r) == load(s1, r, tryLoadPostInfo(s1, r, uri.rkey))
    IN inRepo(getOrCreateRepo(s, uri.did), RepoID(s, uri.did))

postInfoForUri(s, uri) ==
    IF uri \in DOMAIN s.b.postInfoCache
    THEN [s |-> s, ok |-> TRUE, info |-> s.b.postInfoCache[uri]]
    ELSE getOrCreatePostBare(s, uri)

postIDForUri(s, uri) == postInfoForUri(s, uri)

\* returns [s, rev]
revForRepo(s, id) ==
    IF id \in DOMAIN s.b.revCache THEN [s |-> s, rev |-> s.b.revCache[id]]
    ELSE LET rows == {si \in s.db.syncInfos : si.repo = id}
             rev == IF rows = {} THEN <<>> ELSE (CHOOSE si \in rows : TRUE).rev
         IN [s |-> IF rev # <<>>
                   THEN [s EXCEPT !.b.revCache = (id :> rev) @@ @]
                   ELSE s,
             rev |-> rev]

didIsRelevant(s, did) == did \in s.b.relevantDids

\* anyRelevantIdents that lets every record through
anyRelevantIdentsAll(s, dids, uris) == TRUE

\* anyRelevantIdents that looks at the DIDs only
anyRelevantIdentsDidsOnly(s, dids, uris) ==
    \E d \in dids : didIsRelevant(s, d)

\* the idents that start with "did:" are passed in dids, the AT-URIs in uris
anyRelevantIdents(s, dids, uris) ==
    \/ \E d \in dids : didIsRelevant(s, d)
    \/ \E u \in uris : didIsRelevant(s, u.did)

AddNotification(s, for, author, source, kind) ==
    LET id == s.db.nextId.notifs
    IN [s EXCEPT !.db.notifs = @ \cup {[id |-> id, for |-> for, author |-> author,
                                         source |-> source, kind |-> kind]},
                 !.db.nextId.notifs = id + 1]

----------------------------------------------------------------------------
(* Record handlers: create *)

checkPostExists(s, repoID, rkey) ==
    \E p \in s.db.posts :
        p.author = repoID /\ p.rkey = rkey /\ p.id # 0 /\ ~p.notFound

\* INSERT ... ON CONFLICT (author, rkey) DO UPDATE ... RETURNING id
\* returns [s, id]
doPostCreate(s, p) ==
    LET old == {q \in s.db.posts : q.author = p.author /\ q.rkey = p.rkey}
        id == IF old = {} THEN s.db.nextId.posts
              ELSE (CHOOSE q \in old : TRUE).id
    IN [s |-> [s EXCEPT !.db.posts = (@ \ old) \cup {[p EXCEPT !.id = id]},
                        !.db.nextId.posts = IF old = {} THEN id + 1 ELSE @],
        id |-> id]

\* the reply branch of HandleCreatePost; returns [s, ok, p]
postReplyStep(s, rec, p, uri) ==
    IF rec.parent = NoUri THEN [s |-> s, ok |-> TRUE, p |-> p]
    ELSE IF rec.root = NoUri THEN [s |-> s, ok |-> FALSE, p |-> p]
    ELSE
    LET notify(s2, p1) ==
            [s |-> IF p1.replyToUsr = MyRepoID
                   THEN AddNotification(s2, MyRepoID, p1.author, uri,
                                        NotifKindReply)
                   ELSE s2,
             ok |-> TRUE, p |-> p1]
        withRoot(a, t) ==
            IF ~t.ok THEN [s |-> t.s, ok |-> FALSE, p |-> p]
            ELSE notify(t.s, [p EXCEPT !.replyTo = a.info.ID,
                                       !.replyToUsr = a.info.Author,
                                       !.inThread = t.info.ID])
        withParent(a) ==
            IF ~a.ok THEN [s |-> a.s, ok |-> FALSE, p |-> p]
            ELSE withRoot(a, postIDForUri(a.s, rec.root[1]))
    IN withParent(postInfoForUri(s, rec.parent[1]))

\* the embed branch of HandleCreatePost; returns [s, ok, p]
postEmbedStep(s, rec, p) ==
    IF rec.quote = NoUri \/ rec.quote[1].col # ColPost
    THEN [s |-> s, ok |-> TRUE, p |-> p]
    ELSE LET withQuoted(rp) ==
                 IF ~rp.ok THEN [s |-> rp.s, ok |-> FALSE, p |-> p]
                 ELSE [s |-> rp.s, ok |-> TRUE,
                       p |-> [p EXCEPT !.reposting = rp.info.ID]]
         IN withQuoted(postIDForUri(s, rec.quote[1]))

\* the mention facets of HandleCreatePost, in order
RECURSIVE postMentionStep(_, _, _, _)
postMentionStep(s, mentions, author, uri) ==
    IF mentions = <<>> THEN s
    ELSE LET mention(s1) ==
                 IF RepoID(s, Head(mentions)) = MyRepoID
                 THEN AddNotification(s1, MyRepoID, author, uri,
                                      NotifKindMention)
                 ELSE s1
         IN postMentionStep(mention(getOrCreateRepo(s, Head(mentions))),
                            Tail(mentions), author, uri)

\* HandleCreatePost after checkPostExists has found no stored row
createPostChecked(s, repo, rkey, rec) ==
    IF ~anyRelevantIdents(s, {repo.Did},
                IF rec.parent # NoUri /\ rec.root # NoUri
                THEN {rec.parent[1], rec.root[1]} ELSE {})
    THEN Ret(s, "ok")
    ELSE IF ~rec.createdOk THEN Ret(s, "error")
    ELSE
    LET uri == AtUri(repo.Did, ColPost, rkey)
        p == [id |-> 0, author |-> repo.ID, rkey |-> rkey, cid |-> rec.cid,
              notFound |-> FALSE, raw |-> rec.cid, replyTo |-> 0,
              replyToUsr |-> 0, inThread |-> 0, reposting |-> 0]
        created(c) ==
            Ret([postMentionStep(c.s, rec.mentions, repo.ID, uri)
                    EXCEPT !.b.postInfoCache =
                        (uri :> [ID |-> c.id, Author |-> repo.ID]) @@ @], "ok")
        embedded(e) ==
            IF ~e.ok THEN Ret(e.s, "error")
            ELSE created(doPostCreate(e.s, e.p))
        replied(a) ==
            IF ~a.ok THEN Ret(a.s, "error")
            ELSE embedded(postEmbedStep(a.s, rec, a.p))
    IN replied(postReplyStep(s, rec, p, uri))

HandleCreatePost(s, repo, rkey, rec) ==
    IF checkPostExists(s, repo.ID, rkey) THEN Ret(s, "ok")
    ELSE createPostChecked(s, repo, rkey, rec)

HandleCreateLike(s, repo, rkey, rec) ==
    IF ~anyRelevantIdents(s, {repo.Did}, {rec.subject[1]}) THEN Ret(s, "ok")
    ELSE IF ~rec.createdOk THEN Ret(s, "error")
    ELSE
    LET notify(s1, info) ==
            Ret(IF info.Author = MyRepoID
                THEN AddNotification(s1, MyRepoID, repo.ID,
                                     AtUri(repo.Did, ColLike, rkey),
                                     NotifKindLike)
                ELSE s1, "ok")
        insert(s1, info) ==
            IF \E l \in s1.db.likes : l.author = repo.ID /\ l.rkey = rkey
            THEN Ret(s1, "ok")   \* unique violation 23505
            ELSE notify([s1 EXCEPT
                           !.db.likes = @ \cup {[id |-> s1.db.nextId.likes,
                                                 author |-> repo.ID,
                                                 rkey |-> rkey,
                                                 subject |-> info.ID,
                                                 cid |-> rec.cid]},
                           !.db.nextId.likes = @ + 1], info)
        withSubject(pi) ==
            IF ~pi.ok THEN Ret(pi.s, "error") ELSE insert(pi.s, pi.info)
    IN withSubject(postInfoForUri(s, rec.subject[1]))

HandleCreateRepost(s, repo, rkey, rec) ==
    IF ~anyRelevantIdents(s, {repo.Did}, {rec.subject[1]}) THEN Ret(s, "ok")
    ELSE IF ~rec.createdOk THEN Ret(s, "error")
    ELSE
    LET notify(s1, info) ==
            Ret(IF info.Author = MyRepoID
                THEN AddNotification(s1, MyRepoID, repo.ID,
                                     AtUri(repo.Did, ColRepost, rkey),
                                     NotifKindRepost)
                ELSE s1, "ok")
        insert(s1, info) ==
            IF \E l \in s1.db.reposts : l.author = repo.ID /\ l.rkey = rkey
            THEN Ret(s1, "ok")   \* unique violation 23505
            ELSE notify([s1 EXCEPT
                           !.db.reposts = @ \cup {[id |-> s1.db.nextId.reposts,
                                                   author |-> repo.ID,
                                                   rkey |-> rkey,
                                                   subject |-> info.ID]},
                           !.db.nextId.reposts = @ + 1], info)
        withSubject(pi) ==
            IF ~pi.ok THEN Ret(pi.s, "error") ELSE insert(pi.s, pi.info)
    IN withSubject(postInfoForUri(s, rec.subject[1]))

HandleCreateBlock(s, repo, rkey, rec) ==
    IF ~anyRelevantIdents(s, {repo.Did, rec.subjectDid}, {}) THEN Ret(s, "ok")
    ELSE IF ~rec.createdOk THEN Ret(s, "error")
    ELSE
    LET insert(s1, subj) ==
            IF \E b \in s1.db.blocks : b.author = repo.ID /\ b.rkey = rkey
            THEN Ret(s1, "error")   \* db.Create fails on the unique index
            ELSE Ret([s1 EXCEPT
                        !.db.blocks = @ \cup {[id |-> s1.db.nextId.blocks,
                                               author |-> repo.ID,
                                               rkey |-> rkey,
                                               subject |-> subj]},
                        !.db.nextId.blocks = @ + 1], "ok")
    IN insert(getOrCreateRepo(s, rec.subjectDid), RepoID(s, rec.subjectDid))

insertProfile(s, repo, rev, rec) ==
    LET id == s.db.nextId.profiles
    IN [s EXCEPT !.db.profiles = @ \cup {[id |-> id, repo |-> repo.ID,
                                          raw |-> rec.cid, rev |-> rev]},
                 !.db.nextId.profiles = id + 1]

HandleCreateProfile(s, repo, rkey, rev, rec) ==
    IF ~anyRelevantIdents(s, {repo.Did}, {}) THEN Ret(s, "ok")
    ELSE Ret(insertProfile(s, repo, rev, rec), "ok")

HandleUpdateProfile(s, repo, rkey, rev, rec) ==
    IF ~anyRelevantIdents(s, {repo.Did}, {}) THEN Ret(s, "ok")
    ELSE Ret(insertProfile(s, repo, rev, rec), "ok")

HandleCreateFeedGenerator(s, repo, rkey, rec) ==
    IF ~anyRelevantIdents(s, {repo.Did}, {}) THEN Ret(s, "ok")
    ELSE IF ~rec.createdOk THEN Ret(s, "error")
    ELSE Ret([s EXCEPT !.db.feedGens =
                           @ \cup {[id |-> s.db.nextId.feedGens,
                                    author |-> repo.ID, rkey |-> rkey,
                                    did |-> rec.subjectDid]},
                       !.db.nextId.feedGens = @ + 1], "ok")

----------------------------------------------------------------------------
(* Record handlers: delete *)

HandleDeletePost(s, repo, rkey) ==
    Ret([s EXCEPT !.db.posts =
            {p \in @ : ~(p.author = repo.ID /\ p.rkey = rkey)}], "ok")

HandleDeleteLike(s, repo, rkey) ==
    Ret([s EXCEPT !.db.likes =
            {l \in @ : ~(l.author = repo.ID /\ l.rkey = rkey)}], "ok")

HandleDeleteRepost(s, repo, rkey) ==
    Ret([s EXCEPT !.db.reposts =
            {l \in @ : ~(l.author = repo.ID /\ l.rkey = rkey)}], "ok")

HandleDeleteBlock(s, repo, rkey) ==
    Ret([s EXCEPT !.db.blocks =
            {l \in @ : ~(l.author = repo.ID /\ l.rkey = rkey)}], "ok")

\* db.Find into a single struct takes the first row of the repo
HandleDeleteProfile(s, repo, rkey) ==
    LET rows == {q \in s.db.profiles : q.repo = repo.ID}
    IN IF rows = {} THEN Ret(s, "ok")
       ELSE LET first == CHOOSE q \in rows : \A o \in rows : q.id <= o.id
            IN Ret([s EXCEPT !.db.profiles = @ \ {first}], "ok")

----------------------------------------------------------------------------
(* Record router *)

Repo(s, did) == [ID |-> RepoID(s, did), Did |-> did]

\* the revision check of HandleCreate and HandleUpdate: the repo's rev from
\* revForRepo, the op stale when its rev is below a non-empty one
revCheckCreate(s, op) ==
    LET compare(l) ==
            [s |-> l.s, stale |-> l.rev # <<>> /\ RevLess(op.rev, l.rev)]
    IN compare(revForRepo(getOrCreateRepo(s, op.did), RepoID(s, op.did)))

\* the revision check of HandleDelete: the rev cache only
revCheckDelete(s, op) ==
    LET s1 == getOrCreateRepo(s, op.did)
        id == RepoID(s, op.did)
    IN [s |-> s1,
        stale |-> id \in DOMAIN s1.b.revCache
                  /\ RevLess(op.rev, s1.b.revCache[id])]

\* the switch on the collection in HandleCreate
dispatchCreate(s, op) ==
    LET rr == Repo(s, op.did)
    IN CASE op.col = ColPost -> HandleCreatePost(s, rr, op.rkey, op.rec)
         [] op.col = ColLike -> HandleCreateLike(s, rr, op.rkey, op.rec)
         [] op.col = ColRepost -> HandleCreateRepost(s, rr, op.rkey, op.rec)
         [] op.col = ColBlock -> HandleCreateBlock(s, rr, op.rkey, op.rec)
         [] op.col = ColProfile ->
               HandleCreateProfile(s, rr, op.rkey, op.rev, op.rec)
         [] OTHER -> Ret(s, "ok")

\* the switch on the collection in HandleUpdate
dispatchUpdate(s, op) ==
    LET rr == Repo(s, op.did)
    IN CASE op.col = ColProfile ->
               HandleUpdateProfile(s, rr, op.rkey, op.rev, op.rec)
         [] OTHER -> Ret(s, "ok")

\* the switch on the collection in HandleDelete
dispatchDelete(s, op) ==
    LET rr == Repo(s, op.did)
    IN CASE op.col = ColPost -> HandleDeletePost(s, rr, op.rkey)
         [] op.col = ColLike -> HandleDeleteLike(s, rr, op.rkey)
         [] op.col = ColRepost -> HandleDeleteRepost(s, rr, op.rkey)
         [] op.col = ColBlock -> HandleDeleteBlock(s, rr, op.rkey)
         [] op.col = ColProfile -> HandleDeleteProfile(s, rr, op.rkey)
         [] OTHER -> Ret(s, "ok")

\* b.revCache.Add(rr.ID, rev)
revCacheAdd(s, op) ==
    [s EXCEPT !.b.revCache = (RepoID(s, op.did) :> op.rev) @@ @]

\* the end of HandleCreate and HandleDelete: the handler's error is
\* returned, otherwise the rev cache is updated
handled(h, op) == IF h.ret = "error" THEN h ELSE revCacheAdd(h, op)

HandleCreate(s, op) ==
    LET checked(c) ==
            IF c.stale THEN Ret(c.s, "dropped")
            ELSE handled(dispatchCreate(c.s, op), op)
    IN checked(revCheckCreate(s, op))

HandleUpdate(s, op) ==
    LET checked(c) ==
            IF c.stale THEN Ret(c.s, "dropped") ELSE dispatchUpdate(c.s, op)
    IN checked(revCheckCreate(s, op))

\* HandleDelete without the revision check
HandleDeleteUnguarded(s, op) ==
    handled(dispatchDelete(getOrCreateRepo(s, op.did), op), op)

HandleDelete(s, op) ==
    LET checked(c) ==
            IF c.stale THEN Ret(c.s, "dropped")
            ELSE handled(dispatchDelete(c.s, op), op)
    IN checked(revCheckDelete(s, op))

\* the router has a handler for the op's collection: HandleUpdate dispatches
\* profiles only
HasHandler(action, col) == action = "update" => col = ColProfile

\* one op of HandleEvent's loop
HandleOp(s, op) ==
    CASE op.action = "create" -> HandleCreate(s, op)
      [] op.action = "update" -> HandleUpdate(s, op)
      [] op.action = "delete" -> HandleDelete(s, op)

----------------------------------------------------------------------------
(* State of the sync engine, the schedulers and the missing-record fetcher *)

VARIABLES
    sched,        \* per sync backend: events read, the scheduler's task lists
    fetcher,      \* the missingRecords channel and the fetcher's record in hand
    tail,         \* the firehose consumer: connection, s.lastSeq, callbacks
    seqTrackers,  \* the sequence_trackers table
    run           \* history of the consumer's current process lifetime

Backends == 1..NumBackends

InitSched == [b \in Backends |-> [next |-> 1, active |-> [d \in Dids |-> <<>>]]]

\* done: the fetches that have returned, with the fetch function's error and
\* the rev the rev cache held for the repo when the record was handed over
InitFetcher == [queue |-> <<>>, cur |-> NoUri, tracked |-> {}, done |-> {}]

InitTail == [up |-> FALSE, next |-> 0, lastSeq |-> 0, tasks |-> {},
             deliveries |-> 0]

InitRun == [restarts |-> 0, c |-> 0, notifs0 |-> {}, applied |-> {}]

\* goroutines that call into the backend at the same time
VARIABLES
    reg,          \* GetOrCreateRepo: the Repo objects, the locks, the callers
    look,         \* postInfoForUri and GetPostByUri: the callers
    miss,         \* the missingRecords channel, its fetcher and the read path
    stop,         \* the context StartSyncEngine was called with
    conn,         \* the reconnect loop of each backend type and the time
    watch,        \* one stream connection and its liveness watchdog
    curs,         \* s.lastSeq and the position of each configured stream
    evt,          \* the commit event the RepoCommit callback handled last
    hyd,          \* the HydratePost calls in progress, innermost last
    thr,          \* the getPostThreadV2 request answered last and its answer
    act,          \* the profile ops applied and the actor hydrated last
    page,         \* the notification pages a client has fetched
    dup           \* the goroutines handling a create of the same post

\* the Repo object NewPostgresBackend has set up for the principal
MyRepoObj == [Did |-> MyDid, ID |-> MyRepoID, Setup |-> TRUE, Lk |-> 0]

NoCall == [pc |-> "idle", did |-> "", r |-> 0, n |-> 0]

Callers == 1..NumCallers

InitReg ==
    [objs |-> <<MyRepoObj>>,
     cache |-> (MyDid :> 1),
     reposLk |-> 0,
     call |-> [c \in Callers |-> NoCall],
     rets |-> {},
     inserts |-> <<>>,
     overlap |-> {}]

NoLookup == [pc |-> "idle", kind |-> "", uri |-> NoUri, r |-> 0, n |-> 0]

InitLook ==
    [call |-> [c \in Callers |-> NoLookup],
     rets |-> {},
     inserts |-> <<>>,
     collided |-> {}]

Readers == 1..NumReaders

\* a DID as the identifier of a missing record
DidIdent(did) == AtUri(did, "", "")

NoItem == [id |-> 0, type |-> "", ident |-> AtUri("", "", ""), wait |-> FALSE]

NoRead == [pc |-> "idle", item |-> NoItem]

\* chan    the records in the missingRecords channel
\* cur     the record the fetcher has taken off the channel
\* made    the records addMissingRecord was called with, in order
\* closes  per record made, the number of close(rec.waitch) executed
\* fetched the records the fetcher is through with, and how the fetch went
\* call    the read handlers inside the hydration layer
\* done    the hydration calls that have returned
InitMiss ==
    [chan |-> <<>>, cur |-> NoItem, made |-> <<>>, closes |-> <<>>,
     fetched |-> {},
     call |-> [c \in Readers |-> NoRead], reads |-> 0, done |-> {}]

InitStop == [cancelled |-> FALSE]

\* SyncBackend.Type
BackendTypes == {"firehose", "jetstream"}

\* the reconnect loop of the configured backend before StartSyncEngine;
\* held and wait are times in seconds
InitConn ==
    [type |-> "", pc |-> "config", failures |-> 0, held |-> 0, wait |-> 0,
     early |-> FALSE, cursor |-> 0, stored |-> 0, atDial |-> 0, delay |-> 0]

\* a connection just dialled: quiet is the time in seconds since an event
\* last arrived, silence the age of lastEvent where the tail keeps one
InitWatch ==
    [type |-> "", up |-> FALSE, quiet |-> 0, silence |-> 0, fired |-> FALSE,
     quietAtFire |-> 0, dials |-> 0]

\* the hosts of the configured backends: two firehose relays, one jetstream
Streams == {"relay", "relay2", "jetstream"}

\* Server.lastSeq and, per stream, the events its callback has run for and
\* the tail's lastStored
InitCurs ==
    [lastSeq |-> 0, n |-> [h \in Streams |-> 0],
     lastStored |-> [h \in Streams |-> 0]]

\* no event handled yet
InitEvt ==
    [n |-> 0, ops |-> <<>>, bad |-> 0, ret |-> "ok", done |-> {},
     seqSeen |-> FALSE]

\* no HydratePost call in progress
InitHyd == [stack |-> <<>>, out |-> <<>>, calls |-> 0]

\* no thread request answered yet
InitThr ==
    [status |-> "none", anchor |-> 0, above |-> FALSE, below |-> 0,
     branchingFactor |-> 0, items |-> <<>>, hasOtherReplies |-> FALSE]

\* no profile op applied, no actor hydrated
InitAct == [n |-> 0, latest |-> 0, updated |-> FALSE, read |-> FALSE,
            profile |-> 0]

\* the notifications table of one recipient is empty, no writer is inside
\* AddNotification, no page has been asked for
InitPage ==
    [clock |-> 1, nextId |-> 1, rows |-> {},
     stamp |-> [w \in 1..NumWriters |-> 0],
     paging |-> FALSE, cursor |-> 0, more |-> TRUE, seen |-> <<>>]

\* no create of the post has started
InitDup ==
    [rkey |-> "", call |-> [c \in 1..NumCreators |-> [pc |-> "idle", kind |-> ""]]]

viewVars == <<watch, curs, evt, hyd, thr, act, page, dup>>

InitViews ==
    /\ watch = InitWatch
    /\ curs = InitCurs
    /\ evt = InitEvt
    /\ hyd = InitHyd
    /\ thr = InitThr
    /\ act = InitAct
    /\ page = InitPage
    /\ dup = InitDup

callVars == <<reg, look, miss, stop, conn, viewVars>>

InitCalls ==
    /\ reg = InitReg
    /\ look = InitLook
    /\ miss = InitMiss
    /\ stop = InitStop
    /\ conn = InitConn
    /\ InitViews

engineVars == <<sched, fetcher, tail, seqTrackers, run, callVars>>

InitEngine ==
    /\ sched = InitSched
    /\ fetcher = InitFetcher
    /\ tail = InitTail
    /\ seqTrackers = {}
    /\ run = InitRun
    /\ InitCalls

----------------------------------------------------------------------------
(* Spec: the router fed one op at a time, with process restarts *)

\* history of the run:
\*   ever  per DID the largest rev of an op dispatched successfully
\*   proc  the same within the current process lifetime
\*   seen  the DIDs an op was handled for in the current process lifetime
\*   ph    the placeholder rows postInfoForUri has inserted
VARIABLES hist

NoRevs == [d \in Dids |-> <<>>]

vars == <<db, backend, last, nops, hist, sched, fetcher, tail, seqTrackers, run,
          callVars>>

NoOp(what) ==
    [action |-> what, did |-> "", col |-> "", rkey |-> "", rev |-> <<>>,
     ret |-> "ok"]

Init ==
    /\ db = InitDb
    /\ backend = NewPostgresBackend
    /\ last = NoOp("none")
    /\ nops = 0
    /\ hist = [ever |-> NoRevs, proc |-> NoRevs, seen |-> {}, ph |-> {}]
    /\ InitEngine

HandleEvent(op) ==
    /\ nops < MaxOps
    /\ LET returned(r) ==
               /\ db' = r.db
               /\ backend' = r.b
               /\ last' = [action |-> op.action, did |-> op.did,
                            col |-> op.col, rkey |-> op.rkey, rev |-> op.rev,
                            ret |-> r.ret]
               /\ hist' = [ever |-> IF r.ret = "ok" /\ HasHandler(op.action, op.col)
                                     THEN [hist.ever EXCEPT
                                              ![op.did] = RevMax(@, op.rev)]
                                     ELSE hist.ever,
                            proc |-> IF r.ret = "ok" /\ HasHandler(op.action, op.col)
                                     THEN [hist.proc EXCEPT
                                              ![op.did] = RevMax(@, op.rev)]
                                     ELSE hist.proc,
                            seen |-> hist.seen \cup {op.did},
                            ph |-> hist.ph \cup
                                   {p \in r.db.posts \ db.posts : p.notFound}]
       IN returned(HandleOp(Cur, op))
    /\ nops' = nops + 1
    /\ UNCHANGED engineVars

\* the process exits and starts again: the tables persist, the backend is
\* constructed anew
Restart ==
    /\ last.action # "restart"
    /\ backend' = NewPostgresBackend
    /\ last' = NoOp("restart")
    /\ hist' = [hist EXCEPT !.proc = NoRevs, !.seen = {}]
    /\ UNCHANGED <<db, nops>>
    /\ UNCHANGED engineVars

Next ==
    \/ \E op \in Ops : HandleEvent(op)
    \/ Restart

Spec == Init /\ [][Next]_vars

----------------------------------------------------------------------------
(* Properties of the router (Spec) *)

\* id of the Repo row of a DID, 0 when there is none
RepoRowID(did) ==
    IF \E r \in db.repos : r.did = did
    THEN (CHOOSE r \in db.repos : r.did = did).id ELSE 0

DidOfRepo(d, id) == (CHOOSE r \in d.repos : r.id = id).did

\* the rows of every table
TablesOf(d) ==
    <<d.repos, d.posts, d.likes, d.reposts, d.blocks, d.profiles, d.notifs,
      d.syncInfos>>

\* the record with a given content id
RecOf(cid) == (CHOOSE x \in Records : x.rec.cid = cid).rec

NotifsFor(d, kind, source) ==
    {n \in d.notifs : n.kind = kind /\ n.source = source /\ n.for = MyRepoID}

\* an op was handled in this step
OpStep == nops' = nops + 1

\* C1: an op whose rev is below the repo's cached rev is dropped: the
\* router returns nil from the revision check, and no row of any table and
\* no backend field (the rev cache included) is changed.
C1_StaleOpDropped ==
    [][(/\ OpStep
        /\ RepoRowID(last'.did) \in DOMAIN backend.revCache
        /\ RevLess(last'.rev, backend.revCache[RepoRowID(last'.did)]))
       => (last'.ret = "dropped" /\ db' = db /\ backend' = backend)]_vars

\* a delete at rev "10" was dropped for a repo at cached rev "2" and left
\* the repo's stored post in place
C1_Witness ==
    /\ last.action = "delete" /\ last.col = ColPost /\ last.ret = "dropped"
    /\ last.rev = <<1, 0>>
    /\ backend.revCache[RepoRowID(last.did)] = <<2>>
    /\ \E p \in db.posts :
          p.author = RepoRowID(last.did) /\ p.rkey = last.rkey /\ ~p.notFound

\* C2: applying a create op a second time right after the first leaves
\* every table as the first application left it.
C2_CreateTwiceSameState ==
    [][(/\ OpStep
        /\ last.action = "create"
        /\ [last' EXCEPT !.ret = "ok"] = [last EXCEPT !.ret = "ok"])
       => TablesOf(db') = TablesOf(db)]_vars

\* C3: every stored reply to the principal, every like and repost of a
\* post of the principal, and every mention of the principal in a stored
\* post has exactly one Notification row of its kind and source.
C3_ExactlyOneNotification ==
    /\ \A p \in db.posts :
          (~p.notFound /\ p.replyToUsr = MyRepoID)
          => Cardinality(NotifsFor(db, NotifKindReply,
                 AtUri(DidOfRepo(db, p.author), ColPost, p.rkey))) = 1
    /\ \A p \in db.posts :
          ~p.notFound
          => Cardinality(NotifsFor(db, NotifKindMention,
                 AtUri(DidOfRepo(db, p.author), ColPost, p.rkey)))
             = Cardinality({i \in DOMAIN RecOf(p.raw).mentions :
                               RecOf(p.raw).mentions[i] = MyDid})
    /\ \A l \in db.likes :
          RecOf(l.cid).subject[1].did = MyDid
          => Cardinality(NotifsFor(db, NotifKindLike,
                 AtUri(DidOfRepo(db, l.author), ColLike, l.rkey))) = 1
    /\ \A l \in db.reposts :
          Cardinality(NotifsFor(db, NotifKindRepost,
                 AtUri(DidOfRepo(db, l.author), ColRepost, l.rkey))) = 1

\* C38: every id postInfoForUri answers from the post-info cache is the id of
\* a row of the posts table that exists now, with the URI's author and rkey.
C38_CachedPostIdNamesExistingRow ==
    \A uri \in DOMAIN backend.postInfoCache :
        \E p \in db.posts :
            /\ p.id = backend.postInfoCache[uri].ID
            /\ p.author = backend.postInfoCache[uri].Author
            /\ p.rkey = uri.rkey

\* C35: a create of a post that returns an error, or is dropped, before the
\* Post row is written appends no reply and no mention notification.
C35_NoNotificationWithoutStoredPost ==
    [][(/\ OpStep
        /\ last'.action = "create"
        /\ last'.col = ColPost
        /\ last'.ret \in {"error", "dropped"})
       => {n \in db'.notifs : n.kind \in {NotifKindReply, NotifKindMention}}
          = {n \in db.notifs : n.kind \in {NotifKindReply, NotifKindMention}}]_vars

\* C4: once postInfoForUri has inserted a placeholder with id k for
\* (author, rkey), a stored (non-placeholder) Post row of that (author, rkey)
\* has id k and non-empty raw.
C4_PlaceholderUpgradedInPlace ==
    \A p \in db.posts :
        ~p.notFound
        => \A q \in hist.ph :
              (q.author = p.author /\ q.rkey = p.rkey)
              => (p.id = q.id /\ p.raw # 0)

\* C5: the rows a Post row refers to (reply_to, in_thread, reposting,
\* reply_to_usr) exist.
C5_ReferencesExist ==
    \A p \in db.posts :
        /\ p.replyTo # 0 => \E q \in db.posts : q.id = p.replyTo
        /\ p.inThread # 0 => \E q \in db.posts : q.id = p.inThread
        /\ p.reposting # 0 => \E q \in db.posts : q.id = p.reposting
        /\ p.replyToUsr # 0 => \E r \in db.repos : r.id = p.replyToUsr

\* the rev the revision check of the next op of a DID compares against
GuardRev(did) ==
    LET id == RepoRowID(did)
    IN IF id \in DOMAIN backend.revCache THEN backend.revCache[id]
       ELSE revForRepo(Cur, id).rev

\* C6: for every repo the rev the guard compares against is the largest rev
\* of the ops applied to the repo in this process lifetime.
C6_GuardTracksLargestRev ==
    \A d \in Dids :
        hist.proc[d] # <<>> => GuardRev(d) = hist.proc[d]

\* C7: the first op seen for a repo after a restart is dropped when its rev
\* is below the largest rev applied to the repo before the restart.
C7_StaleAfterRestartDropped ==
    [][(/\ OpStep
        /\ last'.did \notin hist.seen
        /\ RevLess(last'.rev, hist.ever[last'.did]))
       => last'.ret = "dropped"]_vars

\* C8: after an op with rev r is dispatched successfully the repo's cached
\* rev is r, for create, update and delete alike.
C8_CacheSetAfterDispatch ==
    (/\ last.action \in Actions
     /\ HasHandler(last.action, last.col)
     /\ last.ret = "ok")
    => (/\ RepoRowID(last.did) \in DOMAIN backend.revCache
        /\ backend.revCache[RepoRowID(last.did)] = last.rev)

\* the rows of a record's table with the (author, rkey) of a record
RowsAt(d, did, col, rkey) ==
    LET author == IF \E r \in d.repos : r.did = did
                  THEN (CHOOSE r \in d.repos : r.did = did).id ELSE 0
        table == CASE col = ColPost -> d.posts
                   [] col = ColLike -> d.likes
                   [] col = ColRepost -> d.reposts
                   [] col = ColBlock -> d.blocks
                   [] OTHER -> {}
    IN {x \in table : x.author = author /\ x.rkey = rkey}

\* C13: a create op past the revision guard whose (author, rkey) already
\* has a row in its table returns nil and leaves exactly one row for the key.
C13_DuplicateCreateIsNoOp ==
    [][(/\ OpStep
        /\ last'.action = "create"
        /\ last'.ret # "dropped"
        /\ RowsAt(db, last'.did, last'.col, last'.rkey) # {})
       => (/\ last'.ret = "ok"
           /\ Cardinality(RowsAt(db', last'.did, last'.col, last'.rkey)) = 1)]_vars

----------------------------------------------------------------------------
(* SpecSched: the sync engine's schedulers and the missing-record fetcher *)

\* what the schedulers and the fetcher leave alone
schedFrame == <<last, nops, hist, tail, seqTrackers, run, callVars>>

RecordAt(did, col, rkey) ==
    CHOOSE x \in AllRecords : x.did = did /\ x.col = col /\ x.rkey = rkey

CommitOp(action, rev, did, col, rkey) ==
    [action |-> action, rev |-> rev, did |-> did, col |-> col, rkey |-> rkey,
     rec |-> RecordAt(did, col, rkey).rec]

\* the i-th commit of the network, which every backend's stream carries
SchedEvent(i) ==
    CASE i % 3 = 1 -> CommitOp("create", <<i>>, "did:d0", ColPost, "r3")
      [] i % 3 = 2 -> CommitOp("create", <<i>>, "did:d1", ColLike, "k1")
      [] OTHER -> CommitOp("create", <<i>>, "did:d1", ColPost, "r1")

\* the three parts of the ingest path of one op
revCheck(s, op) ==
    IF op.action = "delete" THEN revCheckDelete(s, op) ELSE revCheckCreate(s, op)

dispatch(s, op) ==
    CASE op.action = "create" -> dispatchCreate(s, op)
      [] op.action = "update" -> dispatchUpdate(s, op)
      [] op.action = "delete" -> dispatchDelete(s, op)

HeadTask(b, d) == sched[b].active[d][1]

Busy(b, d, pc) == sched[b].active[d] # <<>> /\ HeadTask(b, d).pc = pc

SetHead(b, d, pc) == [sched EXCEPT ![b].active[d][1].pc = pc]

TaskDone(b, d) == [sched EXCEPT ![b].active[d] = Tail(@)]

\* runSyncFirehose's stream reader hands the next event to the backend's
\* scheduler, which appends it to the task list of the event's repo
AddWork(b) ==
    /\ sched[b].next <= MaxSchedEvents
    /\ LET op == SchedEvent(sched[b].next)
       IN sched' = [sched EXCEPT ![b].next = @ + 1,
                                 ![b].active[op.did] =
                                     Append(@, [op |-> op, pc |-> "check"])]
    /\ UNCHANGED <<db, backend, fetcher>>
    /\ UNCHANGED schedFrame

\* a worker runs the revision check of the op at the head of a repo's list
WorkerCheck(b, d) ==
    /\ Busy(b, d, "check")
    /\ LET checked(c) ==
               /\ db' = c.s.db
               /\ backend' = c.s.b
               /\ sched' = IF c.stale THEN TaskDone(b, d)
                            ELSE SetHead(b, d, "handler")
       IN checked(revCheck(Cur, HeadTask(b, d).op))
    /\ UNCHANGED fetcher
    /\ UNCHANGED schedFrame

\* the worker runs the record handler
WorkerDispatch(b, d) ==
    /\ Busy(b, d, "handler")
    /\ LET returned(op, h) ==
               /\ db' = h.db
               /\ backend' = h.b
               /\ sched' = IF h.ret = "error" \/ op.action = "update"
                            THEN TaskDone(b, d) ELSE SetHead(b, d, "add")
       IN returned(HeadTask(b, d).op, dispatch(Cur, HeadTask(b, d).op))
    /\ UNCHANGED fetcher
    /\ UNCHANGED schedFrame

\* the worker updates the rev cache and takes the repo's next task
WorkerAdd(b, d) ==
    /\ Busy(b, d, "add")
    /\ backend' = revCacheAdd(Cur, HeadTask(b, d).op).b
    /\ sched' = TaskDone(b, d)
    /\ UNCHANGED <<db, fetcher>>
    /\ UNCHANGED schedFrame

PostUri(d, p) == AtUri(DidOfRepo(d, p.author), ColPost, p.rkey)

\* a read handler finds a placeholder post and queues it for fetching
TrackMissingRecord(uri) ==
    /\ uri \notin fetcher.tracked
    /\ \E p \in db.posts : p.notFound /\ PostUri(db, p) = uri
    /\ fetcher' = [fetcher EXCEPT !.queue = Append(@, uri),
                                  !.tracked = @ \cup {uri}]
    /\ UNCHANGED <<db, backend, sched>>
    /\ UNCHANGED schedFrame

\* the fetcher takes a record off the channel: fetchMissingPost up to the
\* request to the repo's host
fetchMissingPost ==
    /\ fetcher.cur = NoUri
    /\ fetcher.queue # <<>>
    /\ LET requested(uri, s1) ==
               /\ db' = s1.db
               /\ backend' = s1.b
               /\ fetcher' = [fetcher EXCEPT !.queue = Tail(@), !.cur = uri]
       IN requested(fetcher.queue[1],
                    getOrCreateRepo(
                        [Cur EXCEPT !.b.relevantDids =
                                        @ \cup {fetcher.queue[1].did}],
                        fetcher.queue[1].did))
    /\ UNCHANGED sched
    /\ UNCHANGED schedFrame

\* the last statement of fetchMissingPost, handing the record to HandleCreate
\* with the empty rev the fetcher has
fetchedPostCreateByRev(s, uri) ==
    HandleCreate(s, CommitOp("create", <<>>, uri.did, uri.col, uri.rkey))

\* the last statement of fetchMissingPost:
\* return b.HandleCreatePost(ctx, repo, rkey, buf.Bytes(), cc)
fetchedPostCreate(s, uri) ==
    HandleCreatePost(s, Repo(s, uri.did), uri.rkey,
                     RecordAt(uri.did, uri.col, uri.rkey).rec)

\* the rev the rev cache holds for a repo, <<>> when it holds none
CachedRev(b, id) == IF id \in DOMAIN b.revCache THEN b.revCache[id] ELSE <<>>

\* the host answers: on success the fetcher calls HandleCreatePost
fetchMissingPostDone(ok) ==
    /\ fetcher.cur # NoUri
    /\ LET returned(h, err) ==
               /\ db' = h.db
               /\ backend' = h.b
               /\ fetcher' = [fetcher EXCEPT
                     !.cur = NoUri,
                     !.done = @ \cup
                         {[uri |-> fetcher.cur, err |-> err,
                           rev |-> CachedRev(backend,
                                             RepoID(Cur, fetcher.cur.did))]}]
           handled1(h) == returned(h, h.ret = "error")
           answered(uri) ==
               IF ok
               THEN handled1(fetchedPostCreate(Cur, uri))
               ELSE returned(Cur, TRUE)
       IN answered(fetcher.cur)
    /\ UNCHANGED sched
    /\ UNCHANGED schedFrame

NextSched ==
    \/ \E b \in Backends : AddWork(b)
    \/ \E b \in Backends, d \in Dids : WorkerCheck(b, d)
    \/ \E b \in Backends, d \in Dids : WorkerDispatch(b, d)
    \/ \E b \in Backends, d \in Dids : WorkerAdd(b, d)
    \/ \E d \in Dids, rk \in {"r0", "r1"} :
          TrackMissingRecord(AtUri(d, ColPost, rk))
    \/ fetchMissingPost
    \/ \E ok \in BOOLEAN : fetchMissingPostDone(ok)

SpecSched == Init /\ [][NextSched]_vars

\* the stored (non-placeholder) rows of a post URI
StoredRows(d, uri) ==
    {p \in d.posts : ~p.notFound /\ p.rkey = uri.rkey
                     /\ \E r \in d.repos : r.id = p.author /\ r.did = uri.did}

\* C39: a post handed over by the fetcher is not subject to the revision
\* guard: when fetchMissingPost returns without error the post's row is
\* stored and is no placeholder, whatever rev the rev cache holds for the
\* repo, and the fetch leaves the rev cache as it was.
C39_FetchedPostNotRejectedByRev ==
    [][\A f \in fetcher'.done \ fetcher.done :
          ~f.err => /\ StoredRows(db', f.uri) # {}
                    /\ backend'.revCache = backend.revCache]_vars

\* the fetcher has stored, without error, a post whose placeholder was in the
\* table, in a repo for which the rev cache held a rev
C39_Witness ==
    \E f \in fetcher.done :
        /\ ~f.err
        /\ f.rev # <<>>
        /\ StoredRows(db, f.uri) # {}
        /\ CachedRev(backend, RepoRowID(f.uri.did)) = f.rev

\* the backends with an op of the repo past the revision check and not
\* yet through the rev-cache update
WorkersInPath(d) ==
    {b \in Backends : Busy(b, d, "handler") \/ Busy(b, d, "add")}

\* the fetcher holds a record of the repo it is about to hand to the handler
FetcherInPath(d) == fetcher.cur # NoUri /\ fetcher.cur.did = d

\* C9: for every repo at most one op is in the ingest path (revision check,
\* handler, rev-cache update) at a time, over all schedulers and the fetcher.
C9_OneOpPerRepoInPath ==
    \A d \in Dids :
        Cardinality(WorkersInPath(d)) + (IF FetcherInPath(d) THEN 1 ELSE 0) <= 1

----------------------------------------------------------------------------
(* SpecSync: the firehose consumer with cursor persistence, reconnects and
   process crashes.  The relay holds MaxStreamEvents commits and sends those
   with a seq above the cursor it is asked for, in order of seq. *)

\* what the consumer leaves alone
syncFrame == <<last, nops, hist, sched, fetcher, callVars>>

\* the host of the firehose backend, the key of its sequence tracker
Host == "relay"

\* the checkpoint interval of the RepoCommit callback
CheckpointEvery == 1000

StreamSeq(i) == CheckpointEvery - 2 + i

\* the i-th commit the relay holds
StreamEvent(i) ==
    CASE i % 5 = 1 -> CommitOp("create", <<i>>, "did:d1", ColLike, "k1")
      [] i % 5 = 2 -> CommitOp("create", <<i>>, "did:d0", ColPost, "r3")
      [] i % 5 = 3 -> CommitOp("create", <<i>>, "did:d1", ColRepost, "k1")
      [] i % 5 = 4 -> CommitOp("create", <<i>>, "did:d1", ColPost, "r1")
      [] OTHER -> CommitOp("create", <<i>>, "did:d1", ColPost, "r2")

\* the first commit the relay sends for a cursor
FirstAfter(cursor) ==
    LET later == {i \in 1..MaxStreamEvents : StreamSeq(i) > cursor}
    IN IF later = {} THEN MaxStreamEvents + 1
       ELSE CHOOSE i \in later : \A j \in later : i <= j

storeLastSeq(rows, key, seq) ==
    {r \in rows : r.key # key} \cup {[key |-> key, intVal |-> seq]}

\* loadLastSeq that starts over whatever the table holds
loadLastSeqZero(rows, key) == 0

loadLastSeq(rows, key) ==
    IF \E r \in rows : r.key = key
    THEN (CHOOSE r \in rows : r.key = key).intVal
    ELSE 0

\* the outer loop of runSyncFirehose: load the cursor, dial the relay
runSyncFirehose ==
    /\ ~tail.up
    /\ tail.tasks = {}
    /\ tail' = [tail EXCEPT !.up = TRUE,
                            !.next = FirstAfter(loadLastSeq(seqTrackers, Host))]
    /\ UNCHANGED <<db, backend, seqTrackers, run>>
    /\ UNCHANGED syncFrame

\* the stream reader hands the relay's next event to the scheduler, which
\* starts it when no event of the same repo is being handled
ReadEvent ==
    /\ tail.up
    /\ tail.next <= MaxStreamEvents
    /\ tail.deliveries < MaxDeliveries
    /\ \A k \in tail.tasks : StreamEvent(k.i).did # StreamEvent(tail.next).did
    /\ tail' = [tail EXCEPT !.next = @ + 1,
                            !.deliveries = @ + 1,
                            !.tasks = @ \cup {[i |-> tail.next, pc |-> "seq"]}]
    /\ UNCHANGED <<db, backend, seqTrackers, run>>
    /\ UNCHANGED syncFrame

\* the RepoCommit callback up to s.seqLk.Unlock()
RepoCommitSeq(k) ==
    /\ k \in tail.tasks
    /\ k.pc = "seq"
    /\ LET seq == StreamSeq(k.i)
       IN /\ tail' = [tail EXCEPT
                        !.lastSeq = IF seq > @ THEN seq ELSE @,
                        !.tasks = (@ \ {k}) \cup {[k EXCEPT !.pc = "handle"]}]
          /\ seqTrackers' = IF seq > tail.lastSeq /\ seq % CheckpointEvery = 0
                            THEN storeLastSeq(seqTrackers, Host, seq)
                            ELSE seqTrackers
    /\ UNCHANGED <<db, backend, run>>
    /\ UNCHANGED syncFrame

\* the rest of the callback: s.backend.HandleEvent
RepoCommitHandle(k) ==
    /\ k \in tail.tasks
    /\ k.pc = "handle"
    /\ LET returned(r) == db' = r.db /\ backend' = r.b
       IN returned(HandleOp(Cur, StreamEvent(k.i)))
    /\ tail' = [tail EXCEPT !.tasks = @ \ {k}]
    /\ run' = [run EXCEPT !.applied = @ \cup {StreamSeq(k.i)}]
    /\ UNCHANGED seqTrackers
    /\ UNCHANGED syncFrame

\* the connection ends (read error, watchdog); handlers in flight finish
ConnectionLost ==
    /\ tail.up
    /\ tail' = [tail EXCEPT !.up = FALSE]
    /\ UNCHANGED <<db, backend, seqTrackers, run>>
    /\ UNCHANGED syncFrame

\* the cursor the sequence_trackers table holds for the host
PersistedCursor ==
    IF \E r \in seqTrackers : r.key = Host
    THEN (CHOOSE r \in seqTrackers : r.key = Host).intVal
    ELSE 0

\* the process dies and starts again: the tables persist; the Server and its
\* backend are constructed anew
Crash ==
    /\ run.restarts < MaxRestarts
    /\ tail' = [InitTail EXCEPT !.deliveries = tail.deliveries]
    /\ backend' = NewPostgresBackend
    /\ run' = [restarts |-> run.restarts + 1, c |-> PersistedCursor,
               notifs0 |-> db.notifs, applied |-> {}]
    /\ UNCHANGED <<db, seqTrackers>>
    /\ UNCHANGED syncFrame

NextSync ==
    \/ runSyncFirehose
    \/ ReadEvent
    \/ \E k \in tail.tasks : RepoCommitSeq(k)
    \/ \E k \in tail.tasks : RepoCommitHandle(k)
    \/ ConnectionLost
    \/ Crash

SpecSync == Init /\ [][NextSync]_vars

\* the seq of the commit that carries the record of a notification's source
SeqOfSource(uri) ==
    StreamSeq(CHOOSE i \in 1..MaxStreamEvents :
                  LET e == StreamEvent(i)
                  IN AtUri(e.did, e.col, e.rkey) = uri)

C23_CursorAtMostOneIntervalBehind ==
    tail.tasks = {} => tail.lastSeq - PersistedCursor <= CheckpointEvery

\* C34: whenever a cursor c is persisted for the stream, every event with
\* seq <= c that the process received since it started (from the cursor
\* run.c) has been handled to completion, so that a resume from c loses none.
C34_PersistedCursorCoversOnlyHandledEvents ==
    \A i \in 1..MaxStreamEvents :
        (run.c < StreamSeq(i) /\ StreamSeq(i) <= PersistedCursor)
            => StreamSeq(i) \in run.applied

----------------------------------------------------------------------------
(* SpecGate: the relevance gate of create-post.  The router handles creates
   of posts by a DID the principal does not follow, while the
   missing-record fetcher, which adds the DID of every record it fetches to
   the relevance set, runs beside it. *)

GateOps == { [action |-> "create", rev |-> r, did |-> x.did, col |-> x.col,
              rkey |-> x.rkey, rec |-> x.rec] :
             r \in Revs, x \in GateRecords }

NextGate ==
    \/ \E op \in GateOps : HandleEvent(op)
    \/ \E uri \in {MyPost, AtUri("did:d1", ColPost, "g1")} :
          TrackMissingRecord(uri)
    \/ fetchMissingPost
    \/ \E ok \in BOOLEAN : fetchMissingPostDone(ok)

SpecGate == Init /\ [][NextGate]_vars

\* the record of the op handled last
RecordOf(l) == RecordAt(l.did, l.col, l.rkey).rec

\* the DIDs the claim looks at: the author and the authorities of the reply
\* parent and the reply root
GateDids(did, rec) ==
    {did} \cup (IF rec.parent = NoUri THEN {} ELSE {rec.parent[1].did})
          \cup (IF rec.root = NoUri THEN {} ELSE {rec.root[1].did})

\* a create-post op was handled in this step
CreatePostStep == OpStep /\ last'.action = "create" /\ last'.col = ColPost

\* C11: a create-post op whose author, reply parent authority and reply root
\* authority are all outside the relevance set returns nil and changes no
\* row of the Post and Notification tables (nor of any table but the Repo
\* registry the router fills before the handler runs).
C11_IrrelevantPostWritesNothing ==
    [][(/\ CreatePostStep
        /\ GateDids(last'.did, RecordOf(last')) \cap backend.relevantDids = {})
       => (/\ last'.ret # "error"
           /\ db'.posts = db.posts
           /\ db'.notifs = db.notifs
           /\ db' = [db EXCEPT !.repos = db'.repos,
                               !.nextId.repos = db'.nextId.repos])]_vars

\* the post g2, a reply in its author's own thread that quotes another post
\* of the author, was handled with success and no Post row, placeholder or
\* Notification row exists
C11_Witness ==
    /\ last.action = "create" /\ last.rkey = "g2" /\ last.ret = "ok"
    /\ "did:d1" \notin backend.relevantDids
    /\ db.posts = {} /\ db.notifs = {}

\* the post has a row with its record stored
Stored(d, did, rkey) ==
    \E p \in d.posts :
        /\ DidOfRepo(d, p.author) = did /\ p.rkey = rkey
        /\ ~p.notFound /\ p.raw # 0

\* the reply parent or the reply root has a relevant DID as authority
ThreadRelevant(b, rec) ==
    \/ rec.parent # NoUri /\ rec.parent[1].did \in b.relevantDids
    \/ rec.root # NoUri /\ rec.root[1].did \in b.relevantDids

\* the record passes the handler's validation: createdAt parses, a reply has
\* both references, and the reply and quote URIs have a record key
WellFormedPost(rec) ==
    /\ rec.createdOk
    /\ rec.parent # NoUri /\ ParseAtUriOk(rec.parent[1])
    /\ rec.root # NoUri /\ ParseAtUriOk(rec.root[1])
    /\ (rec.quote # NoUri /\ rec.quote[1].col = ColPost)
       => ParseAtUriOk(rec.quote[1])

\* C12 as stated: a create-post op past the revision guard whose reply
\* parent or reply root has a relevant authority leaves a stored,
\* non-placeholder Post row, whoever the author is.
C12_RelevantThreadPostStored ==
    [][(/\ CreatePostStep
        /\ last'.ret # "dropped"
        /\ ThreadRelevant(backend, RecordOf(last')))
       => Stored(db', last'.did, last'.rkey)]_vars

\* C12 amended: the same for a record that passes the handler's validation.
C12_WellFormedRelevantThreadPostStored ==
    [][(/\ CreatePostStep
        /\ last'.ret # "dropped"
        /\ WellFormedPost(RecordOf(last'))
        /\ ThreadRelevant(backend, RecordOf(last')))
       => (last'.ret = "ok" /\ Stored(db', last'.did, last'.rkey))]_vars

\* the post g4, a reply in the principal's thread to a post of its own
\* author, is stored while its author is outside the relevance set
C12_Witness ==
    /\ last.action = "create" /\ last.rkey = "g4" /\ last.ret = "ok"
    /\ "did:d1" \notin backend.relevantDids
    /\ Stored(db, "did:d1", "g4")

----------------------------------------------------------------------------
(* SpecRepo: concurrent calls of GetOrCreateRepo, one action per step between
   two points where another goroutine can run. *)

repoFrame ==
    <<backend, last, nops, hist, sched, fetcher, tail, seqTrackers, run, look,
      miss, stop, conn, viewVars>>

RepoDids == Dids \cup {"did:d2"}

\* caller c is at pc
At(c, pc) == reg.call[c].pc = pc

Goto(c, pc) == [reg EXCEPT !.call[c].pc = pc]

\* r.Lk.Lock() that does not wait for the holder
LkFreeAlways(r) == TRUE

\* r.Lk.Lock() returns
LkFree(r) == reg.objs[r].Lk = 0

\* the deferred r.Lk.Unlock() and the return of r
Return(g, c, r) ==
    [g EXCEPT !.objs[r].Lk = 0,
              !.call[c] = [NoCall EXCEPT !.n = g.call[c].n],
              !.rets = @ \cup {[did |-> g.call[c].did, id |-> g.objs[r].ID]}]

\* a goroutine calls GetOrCreateRepo(did): r, ok := b.repoCache.Get(did)
RepoCall(c, did) ==
    /\ At(c, "idle")
    /\ reg.call[c].n < MaxCalls
    /\ reg' = [reg EXCEPT
                 !.call[c] = [pc |-> IF did \in DOMAIN reg.cache
                                     THEN "lockR" ELSE "lockRepos",
                              did |-> did,
                              r |-> IF did \in DOMAIN reg.cache
                                    THEN reg.cache[did] ELSE 0,
                              n |-> @.n + 1],
                 !.overlap = IF \E o \in Callers \ {c} : reg.call[o].did = did
                             THEN @ \cup {did} ELSE @]
    /\ UNCHANGED db
    /\ UNCHANGED repoFrame

\* b.reposLk.Lock()
RepoLockCache(c) ==
    /\ At(c, "lockRepos")
    /\ reg.reposLk = 0
    /\ reg' = [Goto(c, "get2") EXCEPT !.reposLk = c]
    /\ UNCHANGED db
    /\ UNCHANGED repoFrame

\* the second repoCache.Get under the lock; on a miss a new Repo object
\* is added to the cache
RepoCacheAdd(c) ==
    /\ At(c, "get2")
    /\ LET did == reg.call[c].did
       IN IF did \in DOMAIN reg.cache
          THEN reg' = [Goto(c, "unlockRepos") EXCEPT
                          !.call[c].r = reg.cache[did]]
          ELSE reg' = [Goto(c, "unlockRepos") EXCEPT
                          !.objs = Append(@, [Did |-> did, ID |-> 0,
                                              Setup |-> FALSE, Lk |-> 0]),
                          !.cache = (did :> Len(reg.objs) + 1) @@ @,
                          !.call[c].r = Len(reg.objs) + 1]
    /\ UNCHANGED db
    /\ UNCHANGED repoFrame

\* b.reposLk.Unlock()
RepoUnlockCache(c) ==
    /\ At(c, "unlockRepos")
    /\ reg' = [Goto(c, "lockR") EXCEPT !.reposLk = 0]
    /\ UNCHANGED db
    /\ UNCHANGED repoFrame

\* r.Lk.Lock() and the test of r.Setup
RepoLock(c) ==
    /\ At(c, "lockR")
    /\ LkFree(reg.call[c].r)
    /\ LET r == reg.call[c].r
       IN reg' = IF reg.objs[r].Setup
                 THEN Return(reg, c, r)
                 ELSE [Goto(c, "select") EXCEPT !.objs[r].Lk = c]
    /\ UNCHANGED db
    /\ UNCHANGED repoFrame

\* SELECT id, created_at, did FROM repos WHERE did = $1
RepoSelect(c) ==
    /\ At(c, "select")
    /\ LET r == reg.call[c].r
           rows == {x \in db.repos : x.did = reg.call[c].did}
       IN reg' = IF rows = {} THEN Goto(c, "create")
                 ELSE Return([reg EXCEPT
                                 !.objs[r].ID = (CHOOSE x \in rows : TRUE).id,
                                 !.objs[r].Setup = TRUE], c, r)
    /\ UNCHANGED db
    /\ UNCHANGED repoFrame

\* b.db.Create(r), r.Setup = true
RepoCreate(c) ==
    /\ At(c, "create")
    /\ LET r == reg.call[c].r
           did == reg.call[c].did
           id == db.nextId.repos
       IN /\ db' = [db EXCEPT !.repos = @ \cup {[id |-> id, did |-> did]},
                              !.nextId.repos = id + 1]
          /\ reg' = Return([reg EXCEPT
                              !.objs[r].ID = id,
                              !.objs[r].Setup = TRUE,
                              !.inserts = Append(@, did)], c, r)
    /\ UNCHANGED repoFrame

NextRepo ==
    \/ \E c \in Callers, did \in RepoDids : RepoCall(c, did)
    \/ \E c \in Callers : RepoLockCache(c)
    \/ \E c \in Callers : RepoCacheAdd(c)
    \/ \E c \in Callers : RepoUnlockCache(c)
    \/ \E c \in Callers : RepoLock(c)
    \/ \E c \in Callers : RepoSelect(c)
    \/ \E c \in Callers : RepoCreate(c)

SpecRepo == Init /\ [][NextRepo]_vars

\* C14: for every DID at most one Repo row is inserted, however many calls
\* of GetOrCreateRepo run at the same time, and every call returns the id of
\* that row.
C14_OneRepoRowPerDid ==
    \A did \in RepoDids :
        /\ Cardinality({i \in DOMAIN reg.inserts : reg.inserts[i] = did}) <= 1
        /\ Cardinality({x \in db.repos : x.did = did}) <= 1
        /\ \A x \in reg.rets :
              x.did = did => \E y \in db.repos : y.did = did /\ y.id = x.id

\* a call for did:d1 that started while another call for did:d1 was under
\* way has returned, like the other, the id of the one row inserted
C14_Witness ==
    /\ "did:d1" \in reg.overlap
    /\ \A c \in Callers : reg.call[c].n = 1 /\ At(c, "idle")
    /\ reg.inserts = <<"did:d1">>
    /\ Cardinality({x \in db.repos : x.did = "did:d1"}) = 1
    /\ \A x \in reg.rets : x.did = "did:d1"

----------------------------------------------------------------------------
(* SpecLookup: concurrent lookups of a post by URI, through postInfoForUri
   (getOrCreatePostBare) in the ingest path and GetPostByUri in the read
   path, one action per database round trip. *)

lookFrame ==
    <<last, nops, hist, sched, fetcher, tail, seqTrackers, run, reg, miss, stop,
      conn, viewVars>>

LookupUris ==
    {MyPost, AtUri("did:d1", ColPost, "r1"), AtUri("did:d1", ColPost, "")}

LookupKinds == {"postInfoForUri", "GetPostByUri"}

LookAt(c, pc) == look.call[c].pc = pc

LookGoto(c, pc) == [look EXCEPT !.call[c].pc = pc]

\* the call returns (id, err)
LookReturn(l, c, id, err) ==
    [l EXCEPT !.call[c] = [NoLookup EXCEPT !.n = l.call[c].n],
              !.rets = @ \cup {[uri |-> l.call[c].uri, id |-> id, err |-> err]}]

\* b.postInfoCache.Add(uri, cachedPostInfo{ID, Author})
postInfoCacheAdd(b, uri, id, author) ==
    [b EXCEPT !.postInfoCache = (uri :> [ID |-> id, Author |-> author]) @@ @]

\* what follows the unique violation of the placeholder's INSERT: the row
\* is read again
AfterCollisionFail == "fail"

AfterCollision == "reload"

\* the call up to GetOrCreateRepo: postInfoForUri answers from the cache,
\* both functions parse the URI
PostCall(c, kind, uri) ==
    /\ LookAt(c, "idle")
    /\ look.call[c].n < MaxCalls
    /\ LET called(l) ==
               IF kind = "postInfoForUri" /\ uri \in DOMAIN backend.postInfoCache
               THEN LookReturn(l, c, backend.postInfoCache[uri].ID, FALSE)
               ELSE IF ~ParseAtUriOk(uri) THEN LookReturn(l, c, 0, TRUE)
               ELSE l
       IN look' = called([look EXCEPT
                            !.call[c] = [pc |-> "repo", kind |-> kind,
                                         uri |-> uri, r |-> 0, n |-> @.n + 1]])
    /\ UNCHANGED <<db, backend>>
    /\ UNCHANGED lookFrame

\* r, err := b.GetOrCreateRepo(ctx, puri.Did)
PostRepo(c) ==
    /\ LookAt(c, "repo")
    /\ LET got(s1, id) ==
               /\ db' = s1.db
               /\ backend' = s1.b
               /\ look' = [LookGoto(c, "select") EXCEPT !.call[c].r = id]
       IN got(getOrCreateRepo(Cur, look.call[c].uri.did),
              RepoID(Cur, look.call[c].uri.did))
    /\ UNCHANGED lookFrame

\* SELECT ... FROM posts WHERE author = r.ID AND rkey = puri.Rkey
PostSelect(c) ==
    /\ LookAt(c, "select")
    /\ LET k == look.call[c]
           found(rows) ==
               IF rows = {}
               THEN /\ look' = LookGoto(c, "insert")
                    /\ backend' = backend
               ELSE /\ look' = LookReturn(look, c,
                                          (CHOOSE x \in rows : TRUE).id, FALSE)
                    /\ backend' = postInfoCacheAdd(
                                      backend, k.uri,
                                      (CHOOSE x \in rows : TRUE).id, k.r)
       IN found(tryLoadPostInfo(Cur, k.r, k.uri.rkey))
    /\ UNCHANGED db
    /\ UNCHANGED lookFrame

\* INSERT INTO posts (rkey, author, not_found) ... of the placeholder; the
\* unique index on (author, rkey) rejects it when a row has appeared
PostInsert(c) ==
    /\ LookAt(c, "insert")
    /\ LET k == look.call[c]
           id == db.nextId.posts
       IN IF tryLoadPostInfo(Cur, k.r, k.uri.rkey) # {}
          THEN /\ look' = IF AfterCollision = "reload"
                          THEN [LookGoto(c, "reload") EXCEPT
                                   !.collided = @ \cup {k.uri}]
                          ELSE LookReturn([look EXCEPT
                                              !.collided = @ \cup {k.uri}],
                                          c, 0, TRUE)
               /\ UNCHANGED <<db, backend>>
          ELSE /\ db' = [db EXCEPT
                           !.posts = @ \cup {Placeholder(id, k.r, k.uri.rkey)},
                           !.nextId.posts = id + 1]
               /\ backend' = postInfoCacheAdd(backend, k.uri, id, k.r)
               /\ look' = LookReturn([look EXCEPT
                                         !.inserts = Append(@, k.uri)],
                                     c, id, FALSE)
    /\ UNCHANGED lookFrame

\* the row is read again after the collision: getOrCreatePostBare fails when
\* it is not there, GetPostByUri's db.Find leaves the post's ID at 0
PostReload(c) ==
    /\ LookAt(c, "reload")
    /\ LET k == look.call[c]
           found(rows) ==
               IF rows = {}
               THEN /\ look' = LookReturn(look, c, 0,
                                          k.kind = "postInfoForUri")
                    /\ backend' = IF k.kind = "postInfoForUri" THEN backend
                                  ELSE postInfoCacheAdd(backend, k.uri, 0, k.r)
               ELSE /\ look' = LookReturn(look, c,
                                          (CHOOSE x \in rows : TRUE).id, FALSE)
                    /\ backend' = postInfoCacheAdd(
                                      backend, k.uri,
                                      (CHOOSE x \in rows : TRUE).id, k.r)
       IN found(tryLoadPostInfo(Cur, k.r, k.uri.rkey))
    /\ UNCHANGED db
    /\ UNCHANGED lookFrame

NextLookup ==
    \/ \E c \in Callers, kind \in LookupKinds, uri \in LookupUris :
          PostCall(c, kind, uri)
    \/ \E c \in Callers : PostRepo(c)
    \/ \E c \in Callers : PostSelect(c)
    \/ \E c \in Callers : PostInsert(c)
    \/ \E c \in Callers : PostReload(c)

SpecLookup == Init /\ [][NextLookup]_vars

\* the rows of a post URI
RowsOfUri(uri) ==
    {p \in db.posts : DidOfRepo(db, p.author) = uri.did /\ p.rkey = uri.rkey}

\* C15: however the lookups of a post without row interleave, one placeholder
\* row is inserted for it, and every lookup, the one whose INSERT hit the
\* unique index included, returns that row's id and no error.
C15_OnePlaceholderPerUri ==
    \A uri \in LookupUris :
        /\ Cardinality({i \in DOMAIN look.inserts : look.inserts[i] = uri}) <= 1
        /\ Cardinality(RowsOfUri(uri)) <= 1
        /\ \A x \in look.rets :
              (x.uri = uri /\ ParseAtUriOk(uri))
              => (~x.err /\ \E p \in RowsOfUri(uri) : p.id = x.id /\ p.notFound)

\* both callers have looked up did:d1's post r1, one INSERT hit the unique
\* index, and both calls have returned the id of the one placeholder
C15_Witness ==
    /\ look.collided = {AtUri("did:d1", ColPost, "r1")}
    /\ look.inserts = <<AtUri("did:d1", ColPost, "r1")>>
    /\ \A c \in Callers : look.call[c].n = 1 /\ LookAt(c, "idle")
    /\ Cardinality(look.rets) = 1
    /\ \A x \in look.rets : ~x.err /\ x.id # 0

----------------------------------------------------------------------------
(* SpecFetch: the read path's hydration calls, the missingRecords channel
   and the missing-record fetcher. *)

fetchFrame ==
    <<last, nops, hist, sched, fetcher, tail, seqTrackers, run, reg, look, stop,
      conn, viewVars>>

MissingRecordTypeProfile == "profile"
MissingRecordTypePost == "post"
MissingRecordTypeFeedGenerator == "feedgenerator"

\* a DID (an identifier without collection) is a profile, an AT-URI of a
\* feed generator is one, every other identifier is taken for a post
inferRecordType(ident) ==
    IF ident.col = "" THEN MissingRecordTypeProfile
    ELSE IF ident.col = ColFeedGen THEN MissingRecordTypeFeedGenerator
    ELSE MissingRecordTypePost

\* GetPostByUri: the row of the post, inserted as a placeholder when there
\* is none; returns [s, ok, post]
GetPostByUri(s, uri) ==
    LET loaded(g) ==
            [s |-> g.s, ok |-> g.ok,
             post |-> IF g.ok
                      THEN CHOOSE p \in g.s.db.posts : p.id = g.info.ID
                      ELSE Placeholder(0, 0, "")]
    IN loaded(getOrCreatePostBare(s, uri))

ReadAt(c, pc) == miss.call[c].pc = pc

\* HydrateActor returns the actor's info
ActorHydrated(m, c) == [m EXCEPT !.call[c] = NoRead]

\* HydratePost returns; done keeps what it met and what it returned
Hydrated(m, c, d) ==
    [m EXCEPT !.call[c] = NoRead, !.done = @ \cup {d}]

HydrateResult(ident, auto, met, item, fetched, still, ret) ==
    [ident |-> ident, auto |-> auto, met |-> met,
     item |-> item, fetched |-> fetched, still |-> still, ret |-> ret]

\* TrackMissingRecord up to the send on the channel
MakeItem(m, c, ident, wait) ==
    [m EXCEPT !.made = Append(@, [id |-> Len(m.made) + 1,
                                  type |-> inferRecordType(ident),
                                  ident |-> ident, wait |-> wait]),
              !.closes = Append(@, 0),
              !.call[c] = [pc |-> "send",
                           item |-> [id |-> Len(m.made) + 1,
                                     type |-> inferRecordType(ident),
                                     ident |-> ident, wait |-> wait]]]

\* HydrateActor up to addMissingActor's send
HydrateActor(c, did) ==
    /\ ReadAt(c, "idle")
    /\ miss.reads < MaxReads
    /\ LET counted == [miss EXCEPT !.reads = @ + 1]
       IN miss' = IF \E q \in db.profiles : q.repo = RepoRowID(did) /\ q.raw # 0
                  THEN ActorHydrated(counted, c)
                  ELSE MakeItem(counted, c, DidIdent(did), FALSE)
    /\ UNCHANGED <<db, backend>>
    /\ UNCHANGED fetchFrame

\* HydratePost and HydratePostDB up to AddMissingRecord's send
HydratePost(c, uri, autoFetch) ==
    /\ ReadAt(c, "idle")
    /\ miss.reads < MaxReads
    /\ LET counted == [miss EXCEPT !.reads = @ + 1]
           result(met, ret) ==
               HydrateResult(uri, autoFetch, met, NoItem, FALSE, met, ret)
           loaded(g) ==
               /\ db' = g.s.db
               /\ backend' = g.s.b
               /\ miss' =
                    IF ~g.ok THEN Hydrated(counted, c, result(FALSE, "error"))
                    ELSE IF ~(g.post.notFound \/ g.post.raw = 0)
                    THEN Hydrated(counted, c, result(FALSE, "ok"))
                    ELSE IF autoFetch THEN MakeItem(counted, c, uri, TRUE)
                    ELSE Hydrated(counted, c, result(TRUE, "notfound"))
       IN loaded(GetPostByUri(Cur, uri))
    /\ UNCHANGED fetchFrame

\* addMissingRecord: the send on the channel, which has room
addMissingRecord(c) ==
    /\ ReadAt(c, "send")
    /\ Len(miss.chan) < QueueCap
    /\ LET sent == [miss EXCEPT !.chan = Append(@, miss.call[c].item)]
           item == miss.call[c].item
       IN miss' = IF item.wait THEN [sent EXCEPT !.call[c].pc = "wait"]
                  ELSE ActorHydrated(sent, c)
    /\ UNCHANGED <<db, backend>>
    /\ UNCHANGED fetchFrame

\* the fetcher takes a record off the channel and runs its fetch function up
\* to the request to the repo's host
missingRecordFetcher ==
    /\ miss.cur = NoItem
    /\ miss.chan # <<>>
    /\ LET requested(s1) == db' = s1.db /\ backend' = s1.b
       IN requested(getOrCreateRepo(
                        [Cur EXCEPT !.b.relevantDids =
                                        @ \cup {miss.chan[1].ident.did}],
                        miss.chan[1].ident.did))
    /\ miss' = [miss EXCEPT !.cur = miss.chan[1], !.chan = Tail(@)]
    /\ UNCHANGED fetchFrame

\* the host serves the record
HostHas(did, col, rkey) ==
    \E x \in AllRecords : x.did = did /\ x.col = col /\ x.rkey = rkey

\* the rest of the fetch function: [s, err]
fetchMissing(s, item, ok) ==
    LET did == item.ident.did
        applied(h) == [s |-> h, err |-> h.ret = "error"]
    IN IF item.type = MissingRecordTypeProfile
       THEN IF ok /\ HostHas(did, ColProfile, "self")
            THEN applied(HandleUpdateProfile(
                             s, Repo(s, did), "self", <<>>,
                             RecordAt(did, ColProfile, "self").rec))
            ELSE [s |-> s, err |-> TRUE]
       ELSE IF item.type = MissingRecordTypeFeedGenerator
       THEN IF ok /\ HostHas(did, item.ident.col, item.ident.rkey)
            THEN applied(HandleCreateFeedGenerator(
                             s, Repo(s, did), item.ident.rkey,
                             RecordAt(did, item.ident.col, item.ident.rkey).rec))
            ELSE [s |-> s, err |-> TRUE]
       ELSE IF ok /\ HostHas(did, item.ident.col, item.ident.rkey)
            THEN applied(HandleCreatePost(
                             s, Repo(s, did), item.ident.rkey,
                             RecordAt(did, item.ident.col, item.ident.rkey).rec))
            ELSE [s |-> s, err |-> TRUE]

\* close(rec.waitch) only after a fetch without error
ShouldCloseOnSuccess(item, err) == item.wait /\ ~err

\* if rec.Wait { close(rec.waitch) }
ShouldClose(item, err) == item.wait

\* the host has answered: the rest of the fetcher's loop body
missingRecordFetched(ok) ==
    /\ miss.cur # NoItem
    /\ LET finished(f) ==
               /\ db' = f.s.db
               /\ backend' = f.s.b
               /\ miss' = [miss EXCEPT
                             !.cur = NoItem,
                             !.fetched = @ \cup {[id |-> miss.cur.id,
                                                  err |-> f.err]},
                             !.closes[miss.cur.id] =
                                 IF ShouldClose(miss.cur, f.err)
                                 THEN @ + 1 ELSE @]
       IN finished(fetchMissing(Cur, miss.cur, ok))
    /\ UNCHANGED fetchFrame

\* the receive on rec.waitch that does not wait for the close
WaitOverAtOnce(item) == TRUE

\* <-rec.waitch returns
WaitOver(item) == miss.closes[item.id] > 0

\* addMissingRecord returns to HydratePostDB, which reads the row again
HydratePostReread(c) ==
    /\ ReadAt(c, "wait")
    /\ miss.call[c].item.type = MissingRecordTypePost
    /\ WaitOver(miss.call[c].item)
    /\ LET item == miss.call[c].item
           still == ~Stored(db, item.ident.did, item.ident.rkey)
       IN miss' = Hydrated(miss, c,
                      HydrateResult(item.ident, TRUE, TRUE, item,
                                    \E f \in miss.fetched : f.id = item.id,
                                    still,
                                    IF still THEN "notfound" ELSE "ok"))
    /\ UNCHANGED <<db, backend>>
    /\ UNCHANGED fetchFrame

NextFetch ==
    \/ \E c \in Readers : HydrateActor(c, "did:d1")
    \/ \E c \in Readers, uri \in {MyPost, AtUri("did:d1", ColPost, "r1")},
          autoFetch \in BOOLEAN : HydratePost(c, uri, autoFetch)
    \/ \E c \in Readers : addMissingRecord(c)
    \/ missingRecordFetcher
    \/ \E ok \in BOOLEAN : missingRecordFetched(ok)
    \/ \E c \in Readers : HydratePostReread(c)

SpecFetch == Init /\ [][NextFetch]_vars

\* C16: the fetcher closes the completion channel of a record enqueued with
\* wait exactly once, when it is through with the record, whether the fetch
\* failed or not; it never closes it before and never twice.
C16_WaitChannelClosedOnce ==
    \A i \in DOMAIN miss.made :
        /\ miss.closes[i] <= 1
        /\ miss.closes[i] = 1
           <=> (miss.made[i].wait /\ \E f \in miss.fetched : f.id = i)

\* a record enqueued with wait whose fetch failed and one whose fetch
\* succeeded have both had their channel closed once
C16_Witness ==
    \E i, j \in DOMAIN miss.made :
        /\ miss.made[i].wait /\ miss.made[j].wait
        /\ [id |-> i, err |-> TRUE] \in miss.fetched
        /\ [id |-> j, err |-> FALSE] \in miss.fetched
        /\ miss.closes[i] = 1 /\ miss.closes[j] = 1

\* C17: a caller that enqueues a record with wait=false is never held at
\* the send: the channel has room whenever it gets there.
C17_EnqueueNeverBlocks ==
    \A c \in Readers :
        (ReadAt(c, "send") /\ ~miss.call[c].item.wait)
        => Len(miss.chan) < QueueCap

\* C18: a HydratePost with auto-fetch that met a placeholder has enqueued the
\* URI with wait=true, has read the row again only after the fetcher was
\* through with that record, and has returned the not-found error exactly
\* when the row was still a placeholder.
C18_HydrateWaitsAndRereads ==
    \A d \in miss.done :
        (d.met /\ d.auto)
        => /\ d.item.wait /\ d.item.ident = d.ident
           /\ d.item.type = MissingRecordTypePost
           /\ d.fetched
           /\ d.ret = "notfound" <=> d.still

\* one HydratePost with auto-fetch has returned not-found after a failed
\* fetch, another has returned the post after a fetch that stored it
C18_Witness ==
    /\ \E d \in miss.done :
          /\ d.met /\ d.auto /\ d.ret = "notfound"
          /\ [id |-> d.item.id, err |-> TRUE] \in miss.fetched
    /\ \E d \in miss.done :
          /\ d.met /\ d.auto /\ d.ret = "ok"
          /\ Stored(db, d.ident.did, d.ident.rkey)

----------------------------------------------------------------------------
(* SpecFetchLive: the missing-record queue with callers of every record
   type, under the scheduling the Go runtime gives: the fetcher goroutine
   runs, every fetch returns, a goroutine whose channel is closed runs, and a
   sender blocked on the full channel gets its turn when room is made
   (blocked senders are served in the order they came). *)

FeedUri == AtUri("did:d1", ColFeedGen, "f1")

\* HandleGetFeedGenerator up to AddMissingRecord's send: a feed generator without row
\* is enqueued with wait; with a row the handler goes on to the feed's
\* service and writes nothing
HandleGetFeedGenerator(c, uri) ==
    /\ ReadAt(c, "idle")
    /\ miss.reads < MaxReads
    /\ LET counted == [miss EXCEPT !.reads = @ + 1]
       IN miss' = IF \E g \in db.feedGens :
                        g.author = RepoRowID(uri.did) /\ g.rkey = uri.rkey
                  THEN ActorHydrated(counted, c)
                  ELSE MakeItem(counted, c, uri, TRUE)
    /\ UNCHANGED <<db, backend>>
    /\ UNCHANGED fetchFrame

\* addMissingRecord returns to HandleGetFeedGenerator, which answers NotFound
HandleGetFeedGeneratorNotFound(c) ==
    /\ ReadAt(c, "wait")
    /\ miss.call[c].item.type = MissingRecordTypeFeedGenerator
    /\ WaitOver(miss.call[c].item)
    /\ miss' = ActorHydrated(miss, c)
    /\ UNCHANGED <<db, backend>>
    /\ UNCHANGED fetchFrame

NextFetchLive ==
    \/ \E c \in Readers : HydrateActor(c, "did:d1")
    \/ \E c \in Readers :
          HydratePost(c, AtUri("did:d1", ColPost, "r1"), TRUE)
    \/ \E c \in Readers : HandleGetFeedGenerator(c, FeedUri)
    \/ \E c \in Readers : addMissingRecord(c)
    \/ missingRecordFetcher
    \/ \E ok \in BOOLEAN : missingRecordFetched(ok)
    \/ \E c \in Readers : HydratePostReread(c)
    \/ \E c \in Readers : HandleGetFeedGeneratorNotFound(c)

SpecFetchLive ==
    /\ Init
    /\ [][NextFetchLive]_vars
    /\ WF_vars(missingRecordFetcher)
    /\ WF_vars(\E ok \in BOOLEAN : missingRecordFetched(ok))
    /\ \A c \in Readers :
          /\ SF_vars(addMissingRecord(c))
          /\ WF_vars(HydratePostReread(c))
          /\ WF_vars(HandleGetFeedGeneratorNotFound(c))

\* the caller is inside addMissingRecord with a record it waits for: at the
\* send on the channel or at the receive on rec.waitch
BlockedWithWait(c) ==
    /\ miss.call[c].pc \in {"send", "wait"}
    /\ miss.call[c].item.wait

\* C36: every caller blocked in an enqueue with wait=true is eventually
\* released, whatever the type of its record (post, feed generator) and
\* whether or not the channel was full when it came to the send.
C36_WaitingCallerReleased ==
    \A c \in Readers : BlockedWithWait(c) ~> ReadAt(c, "idle")

\* a HydratePost that waited for its post has returned after the fetch, and
\* the record of a feed generator, enqueued with wait, was fetched with an
\* error and its channel closed
C36_Witness ==
    /\ \E d \in miss.done : d.met /\ d.auto /\ d.item.wait /\ d.fetched
    /\ \E i \in DOMAIN miss.made :
          /\ miss.made[i].type = MissingRecordTypeFeedGenerator
          /\ miss.made[i].wait
          /\ [id |-> i, err |-> TRUE] \in miss.fetched
          /\ miss.closes[i] = 1

\* C26: a HydratePost call leaves every table, the relevance set and the
\* fetch queue as they were.
C26_HydratePostIsPure ==
    [][(/\ miss.reads' # miss.reads
        /\ \/ miss.made' = miss.made
           \/ miss.made'[Len(miss.made')].type = MissingRecordTypePost)
       => /\ db' = db
          /\ backend'.relevantDids = backend.relevantDids
          /\ miss.made' = miss.made]_vars

----------------------------------------------------------------------------
(* SpecStop: the firehose consumer of SpecSync when the context of
   StartSyncEngine is cancelled.  HandleRepoStream returns on the cancelled
   context and closes the connection; the callbacks the scheduler has
   started run on context.Background() and finish. *)

\* the parent context is cancelled: HandleRepoStream closes the websocket
\* and returns, startLiveTail returns to runSyncFirehose
ParentCancel ==
    /\ ~stop.cancelled
    /\ stop' = [stop EXCEPT !.cancelled = TRUE]
    /\ tail' = [tail EXCEPT !.up = FALSE]
    /\ UNCHANGED <<db, backend, seqTrackers, run>>
    /\ UNCHANGED <<last, nops, hist, sched, fetcher, reg, look, miss, conn>>
    /\ UNCHANGED viewVars

\* after the cancellation no event is read: HandleRepoStream returns on the
\* cancelled context before its first read
NextStop ==
    \/ ~stop.cancelled /\ runSyncFirehose
    \/ ~stop.cancelled /\ ReadEvent
    \/ \E k \in tail.tasks : RepoCommitSeq(k)
    \/ \E k \in tail.tasks : RepoCommitHandle(k)
    \/ ~stop.cancelled /\ ConnectionLost
    \/ ParentCancel

SpecStop == Init /\ [][NextStop]_vars

\* the consumer is through with the cancellation: the websocket is closed
\* and no handler is in flight
ShutDown == stop.cancelled /\ ~tail.up /\ tail.tasks = {}

\* the seq of the last (highest) event handled
LastHandled == CHOOSE q \in run.applied : \A o \in run.applied : o <= q

\* C19: once the consumer has shut down on the parent's cancellation, with
\* the websocket closed and every handler in flight finished, the persisted
\* cursor is the seq of the last event handled.
C19_CursorFlushedOnShutdown ==
    (ShutDown /\ run.applied # {}) => PersistedCursor = LastHandled

----------------------------------------------------------------------------------------------------------------------------------------
(* SpecBackoff: the reconnect loop runSyncFirehose or runSyncJetstream of
   one configured backend, with the time in seconds.  A connection is
   dialled from the cursor loaded at the top of the loop, is held for some
   time while the callback checkpoints the cursor, and ends.  conn.held is
   the time the connection has been held, conn.wait the part of the computed
   delay that has not yet passed since the last connection ended. *)

backoffFrame ==
    <<db, backend, last, nops, hist, sched, fetcher, tail, run, reg, look,
      miss, stop, viewVars>>

MaxFailures == 5
MaxCheckpoints == 2

failureTimeInterval == 5

\* the delay as the smaller of the linear term and the cap
delayForFailureCountMin(n) == IF 5 + 2 * n < 30 THEN 5 + 2 * n ELSE 30

delayForFailureCount(n) == IF n < 5 THEN 5 + 2 * n ELSE 30

\* SyncBackend.Host of the backend of a type
BackendHost(t) == IF t = "firehose" THEN Host ELSE "jetstream"

\* whether the loop of a type ends its body with time.Sleep(delay)
Sleeps(t) == t = "jetstream"

\* StartSyncEngine starts the loop of the backend's type
StartSyncEngine(t) ==
    /\ conn.pc = "config"
    /\ conn' = [conn EXCEPT !.type = t, !.pc = "load"]
    /\ UNCHANGED seqTrackers
    /\ UNCHANGED backoffFrame

\* a second passes; a connection held for more than failureTimeInterval is
\* not timed further
Tick ==
    /\ \/ conn.pc = "tail" /\ conn.held <= failureTimeInterval
       \/ conn.pc \in {"load", "sleep"} /\ conn.wait > 0
    /\ conn' = IF conn.pc = "tail"
               THEN [conn EXCEPT !.held = @ + 1]
               ELSE [conn EXCEPT !.wait = @ - 1]
    /\ UNCHANGED seqTrackers
    /\ UNCHANGED backoffFrame

\* top of the loop: loadLastSeq, start := time.Now(), the tail is started
Connect ==
    /\ conn.pc = "load"
    /\ conn' = [conn EXCEPT
                  !.pc = "tail",
                  !.held = 0,
                  !.wait = 0,
                  !.cursor = loadLastSeq(seqTrackers, BackendHost(conn.type)),
                  !.early = conn.wait > 0,
                  !.atDial = conn.stored]
    /\ UNCHANGED seqTrackers
    /\ UNCHANGED backoffFrame

\* the callback of the tail stores a checkpoint of the cursor
Checkpoint ==
    /\ conn.pc = "tail"
    /\ conn.stored < MaxCheckpoints
    /\ seqTrackers' =
           storeLastSeq(seqTrackers, BackendHost(conn.type), conn.stored + 1)
    /\ conn' = [conn EXCEPT !.stored = @ + 1]
    /\ UNCHANGED backoffFrame

\* the tail returns: elapsed := time.Since(start); a connection held for
\* more than failureTimeInterval resets failures and continues, a shorter
\* one counts a failure and computes the delay
ConnectionEnds ==
    LET elapsed == conn.held
        delay == delayForFailureCount(conn.failures + 1)
    IN
    /\ conn.pc = "tail"
    /\ conn.failures < MaxFailures
    /\ conn' =
         IF elapsed > failureTimeInterval
         THEN [conn EXCEPT !.pc = "load", !.failures = 0, !.wait = 0,
                           !.delay = 0]
         ELSE [conn EXCEPT !.pc = IF Sleeps(conn.type) THEN "sleep" ELSE "load",
                           !.failures = @ + 1,
                           !.wait = delay,
                           !.delay = delay]
    /\ UNCHANGED seqTrackers
    /\ UNCHANGED backoffFrame

\* time.Sleep(delay) returns
Wake ==
    /\ conn.pc = "sleep"
    /\ conn.wait = 0
    /\ conn' = [conn EXCEPT !.pc = "load"]
    /\ UNCHANGED seqTrackers
    /\ UNCHANGED backoffFrame

NextBackoff ==
    \/ \E t \in BackendTypes : StartSyncEngine(t)
    \/ Tick
    \/ Connect
    \/ Checkpoint
    \/ ConnectionEnds
    \/ Wake

SpecBackoff == Init /\ [][NextBackoff]_vars

\* C20: for every backend type, a connection attempt that follows a
\* connection held for 5 s or less is made no earlier than the computed
\* backoff delay after that connection's end, and every attempt starts from
\* the cursor last persisted.
C20_BackoffBeforeReconnect ==
    conn.pc = "tail" => ~conn.early /\ conn.cursor = conn.atDial

\* C21 as stated: after n >= 1 consecutive short-lived connections the
\* computed reconnect delay is min(5 s + 2 s * n, 30 s).
C21_DelayIsMinOfLinearAndCap ==
    conn.failures >= 1 =>
        conn.delay = IF 5 + 2 * conn.failures <= 30
                     THEN 5 + 2 * conn.failures ELSE 30

\* C21 amended: after n >= 1 consecutive short-lived connections the delay
\* the loop computes is 5 s + 2 s * n while n < 5 and 30 s from n = 5 on; a
\* connection held longer than 5 s resets n to 0.
C21_DelayStepsToCapAtFive ==
    /\ conn.failures \in 1..4 => conn.delay = 5 + 2 * conn.failures
    /\ conn.failures >= 5 => conn.delay = 30
    /\ conn.failures = 0 => conn.delay = 0

C21_Witness == conn.failures = 5 /\ conn.delay = 30 /\ conn.pc = "tail"

----------------------------------------------------------------------------
(* SpecCancel: the reconnect loop of SpecBackoff when the context given to
   StartSyncEngine is cancelled.  StartSyncEngine itself returns on
   ctx.Done(); the loops run in goroutines of their own, and their `for`
   has no exit. *)

\* the parent cancels the context; a tail that is up returns to the loop
\* (ConnectionEnds) on the cancelled context
CancelSyncEngine ==
    /\ conn.pc # "config"
    /\ ~stop.cancelled
    /\ stop' = [stop EXCEPT !.cancelled = TRUE]
    /\ UNCHANGED <<db, backend, last, nops, hist, sched, fetcher, tail,
                   seqTrackers, run, reg, look, miss, conn, viewVars>>

NextCancel ==
    \/ \E t \in BackendTypes : StartSyncEngine(t)
    \/ Tick
    \/ Connect
    \/ Checkpoint
    \/ ConnectionEnds
    \/ Wake
    \/ CancelSyncEngine

SpecCancel == Init /\ [][NextCancel]_vars

\* C40: once the context is cancelled no reconnect loop starts a further
\* connection: no step after the cancellation takes a loop from the top of
\* its body into a tail.
C40_NoConnectionAfterCancel ==
    [][stop.cancelled => ~(conn.pc = "load" /\ conn'.pc = "tail")]_vars

----------------------------------------------------------------------------
(* SpecWatch: one stream connection of a backend and the goroutine that
   watches it, with the time in seconds.  startLiveTail starts a ticker
   that closes the connection when lastEvent is more than 30 s old;
   startJetstreamTail starts none. *)

watchFrame ==
    <<db, backend, last, nops, hist, sched, fetcher, tail, seqTrackers, run,
      reg, look, miss, stop, conn, curs, evt, hyd, thr, act,
      page, dup>>

MaxDials == 2

\* the age of lastEvent beyond which the watchdog closes the connection
WatchTimeout == 30

\* the frames a relay sends on subscribeRepos
FrameKinds == {"commit", "identity"}

\* whether the tail of a backend type runs the watchdog goroutine
HasWatchdog(t) == t = "firehose"

\* the callback that sets lastEvent: RepoCommit alone
SetsLastEvent(kind) == kind = "commit"

\* the outer loop dials: lastEvent := time.Now()
Dial(t) ==
    /\ ~watch.up
    /\ watch.dials < MaxDials
    /\ watch.type \in {"", t}
    /\ watch' = [watch EXCEPT !.type = t, !.up = TRUE, !.quiet = 0,
                              !.silence = 0, !.fired = FALSE,
                              !.quietAtFire = 0, !.dials = @ + 1]
    /\ UNCHANGED watchFrame

\* a frame arrives and its callback, if the tail has one for it, runs
Arrive(kind) ==
    /\ watch.up
    /\ watch' = [watch EXCEPT
                   !.quiet = 0,
                   !.silence = IF SetsLastEvent(kind) THEN 0 ELSE @]
    /\ UNCHANGED watchFrame

\* a second passes and the ticker of the watchdog, where there is one, runs
\* its case: time.Since(lastEvent) > 30 s closes the connection
Second ==
    LET q == watch.quiet + 1
        s == IF HasWatchdog(watch.type) THEN watch.silence + 1 ELSE 0
    IN
    /\ watch.up
    /\ watch.quiet <= WatchTimeout + 1
    /\ watch' =
         IF HasWatchdog(watch.type) /\ s > WatchTimeout
         THEN [watch EXCEPT !.up = FALSE, !.fired = TRUE, !.quiet = q,
                            !.silence = s, !.quietAtFire = q]
         ELSE [watch EXCEPT !.quiet = q, !.silence = s]
    /\ UNCHANGED watchFrame

\* the remote end closes the stream
StreamEnds ==
    /\ watch.up
    /\ watch' = [watch EXCEPT !.up = FALSE]
    /\ UNCHANGED watchFrame

NextWatch ==
    \/ \E t \in BackendTypes : Dial(t)
    \/ \E kind \in FrameKinds : Arrive(kind)
    \/ Second
    \/ StreamEnds

SpecWatch == Init /\ [][NextWatch]_vars

\* C22: a connection on which no event has arrived for 30 s (one tick of
\* the watchdog allowed) is closed, and the watchdog closes a connection
\* only when no event arrived on it during the last 30 s.
C22_WatchdogClosesExactlySilentStreams ==
    /\ watch.up => watch.quiet <= WatchTimeout + 1
    /\ watch.fired => watch.quietAtFire >= WatchTimeout

----------------------------------------------------------------------------
(* SpecCursors: the cursor bookkeeping of the callbacks of several
   configured backends.  Every callback compares its event's position with
   the one field Server.lastSeq under s.seqLk and stores its checkpoint
   under the host of its own stream. *)

cursFrame ==
    <<db, backend, last, nops, hist, sched, fetcher, tail, run, reg, look,
      miss, stop, conn, watch, evt, hyd, thr, act,
      page, dup>>

MaxCursorEvents == 3

\* the interval in microseconds between checkpoints of a jetstream tail
JetstreamInterval == 1000000

TypeOfStream(h) == IF h = "jetstream" THEN "jetstream" ELSE "firehose"

\* the position of the i-th event of a stream: evt.Seq of a relay, TimeUS of
\* a jetstream
PositionOf(h, i) ==
    CASE h = "relay" -> StreamSeq(i)
      [] h = "relay2" -> 2 * CheckpointEvery - 2 + i
      [] OTHER -> 2 * JetstreamInterval + 600000 * i

\* whether the callback of a stream stores a checkpoint at a position
Due(h, pos, lastStored) ==
    IF TypeOfStream(h) = "firehose"
    THEN pos % CheckpointEvery = 0
    ELSE pos - lastStored > JetstreamInterval

\* the locked region of the RepoCommit callback of startLiveTail and of the
\* callback of startJetstreamTail, for the next event of a stream
CursorCallback(h) ==
    LET pos == PositionOf(h, curs.n[h] + 1)
        newer == pos > curs.lastSeq
        due == newer /\ Due(h, pos, curs.lastStored[h])
    IN
    /\ curs.n[h] < MaxCursorEvents
    /\ seqTrackers' = IF due THEN storeLastSeq(seqTrackers, h, pos)
                      ELSE seqTrackers
    /\ curs' = [curs EXCEPT !.n[h] = @ + 1,
                            !.lastSeq = IF newer THEN pos ELSE @,
                            !.lastStored[h] = IF due THEN pos ELSE @]
    /\ UNCHANGED cursFrame

NextCursors == \E h \in Streams : CursorCallback(h)

SpecCursors == Init /\ [][NextCursors]_vars

RECURSIVE StoredAlone(_, _)
\* the checkpoint a stream holds after its first n events when it is the
\* only stream configured
StoredAlone(h, n) ==
    IF n = 0 THEN 0
    ELSE LET before == StoredAlone(h, n - 1)
         IN IF Due(h, PositionOf(h, n), before)
            THEN PositionOf(h, n) ELSE before

\* C24: with several backends configured, the cursor persisted under the
\* host of each stream is the one that stream's own events give it, whatever
\* the other streams have received.
C24_CursorPerStreamIndependent ==
    \A h \in Streams :
        loadLastSeq(seqTrackers, h) = StoredAlone(h, curs.n[h])

----------------------------------------------------------------------------
(* SpecEvent: the RepoCommit callback on commits that carry several ops.
   The record bytes of one op of a commit may be missing from the commit's
   CAR, so that GetRecordBytes fails for it. *)

eventFrame ==
    <<last, nops, hist, sched, fetcher, tail, seqTrackers, run, reg, look,
      miss, stop, conn, watch, curs, hyd, thr, act,
      page, dup>>

MaxEvents == 2
MaxEventOps == 2

\* the ops a commit of a repo can carry, all with the commit's rev
EventOps(did, rev) ==
    { [action |-> a, rev |-> rev, did |-> did, col |-> x.col,
       rkey |-> x.rkey, rec |-> x.rec] :
      a \in {"create", "delete"}, x \in {y \in Records : y.did = did} }

\* the ops of the explored commits: one to MaxEventOps ops
EventOpLists(did, rev) ==
    UNION { [1..k -> EventOps(did, rev)] : k \in 1..MaxEventOps }

RECURSIVE HandleEventLoop(_, _, _, _, _)
\* the loop of HandleEvent over evt.Ops from the i-th op on: the first error
\* is returned at once; done are the ops the handlers returned nil for
HandleEventLoop(s, ops, bad, i, done) ==
    LET handledOp(r) ==
            IF r.ret = "error" THEN [s |-> r, done |-> done]
            ELSE HandleEventLoop(Ret(r, "ok"), ops, bad, i + 1,
                                 done \cup {i})
    IN IF i > Len(ops) THEN [s |-> Ret(s, "ok"), done |-> done]
       ELSE IF i = bad /\ ops[i].action # "delete"
       THEN [s |-> Ret(s, "error"), done |-> done]   \* r.GetRecordBytes
       ELSE handledOp(HandleOp(s, ops[i]))

\* the RepoCommit callback: s.lastSeq is advanced, then HandleEvent runs and
\* its error is returned to the scheduler
RepoCommit(ops, bad) ==
    LET returned(r) ==
            /\ db' = r.s.db
            /\ backend' = r.s.b
            /\ evt' = [n |-> evt.n + 1, ops |-> ops, bad |-> bad,
                       ret |-> r.s.ret, done |-> r.done, seqSeen |-> TRUE]
    IN
    /\ evt.n < MaxEvents
    /\ returned(HandleEventLoop(Cur, ops, bad, 1, {}))
    /\ UNCHANGED eventFrame

NextEvent ==
    \E did \in Dids :
        \E ops \in EventOpLists(did, <<2>>) :
            \E bad \in 0..Len(ops) :
                /\ bad # 0 => ops[bad].action # "delete"
                /\ RepoCommit(ops, bad)

SpecEvent == Init /\ [][NextEvent]_vars

\* C25: when the record of one op of a commit cannot be decoded, the
\* callback returns no error to the scheduler, every other op of the commit
\* has been handled, and the cursor has advanced.
C25_DecodeErrorSkipsOnlyThatOp ==
    evt.bad # 0 =>
        /\ evt.ret = "ok"
        /\ evt.done = (1..Len(evt.ops)) \ {evt.bad}
        /\ evt.seqSeen

----------------------------------------------------------------------------
(* SpecQuote: HydratePost on posts that quote posts.  HydratePostDB formats
   the embed of the post it hydrates; for a record embed formatEmbed calls
   hydrateEmbeddedRecord, which calls HydratePost on the quoted URI.  The
   calls in progress form a stack. *)

quoteFrame ==
    <<db, backend, last, nops, hist, sched, fetcher, tail, seqTrackers, run,
      reg, look, miss, stop, conn, watch, curs, evt, thr, act,
      page, dup>>

MaxHydrations == 3
MaxDepth == 6

NoQuote == ""

\* the posts table read by the explored calls: per rkey of a post of did:d1
\* whether the row is stored (not a placeholder), the URI its record embed
\* quotes and the number of likes on it
QuotePosts ==
    [q1 |-> [stored |-> TRUE, quote |-> "q2", likes |-> 0],
     q2 |-> [stored |-> TRUE, quote |-> "q3", likes |-> 2],
     q3 |-> [stored |-> TRUE, quote |-> "q4", likes |-> 1],
     q4 |-> [stored |-> FALSE, quote |-> NoQuote, likes |-> 0],
     q5 |-> [stored |-> TRUE, quote |-> "q6", likes |-> 0],
     q6 |-> [stored |-> TRUE, quote |-> "q5", likes |-> 1],
     q7 |-> [stored |-> TRUE, quote |-> NoQuote, likes |-> 3]]

\* a call of HydratePost that has not yet formatted the embed
Frame(uri) == [uri |-> uri, pc |-> "load", ei |-> <<>>]

\* a request handler calls HydratePost
HydratePostCall(uri) ==
    /\ hyd.stack = <<>>
    /\ hyd.calls < MaxHydrations
    /\ hyd' = [stack |-> <<Frame(uri)>>, out |-> <<>>, calls |-> hyd.calls + 1]
    /\ UNCHANGED quoteFrame

\* the value a call hands to its caller: hydrateEmbeddedRecord turns the
\* PostInfo, or the error, into the record view of the embed
Returned(stack, view) ==
    IF Len(stack) = 1
    THEN [hyd EXCEPT !.stack = <<>>, !.out = <<view>>]
    ELSE [hyd EXCEPT
            !.stack = [SubSeq(stack, 1, Len(stack) - 1)
                          EXCEPT ![Len(stack) - 1].pc = "embedded",
                                 ![Len(stack) - 1].ei =
                                     <<IF view.found
                                       THEN [found |-> TRUE, uri |-> view.uri,
                                             likes |-> view.likes,
                                             author |-> "did:d1"]
                                       ELSE [found |-> FALSE,
                                             uri |-> view.uri]>>]]

\* HydratePostDB of the innermost call: a placeholder is `post not found`; a
\* post with a record embed has the embed formatted, which calls HydratePost
\* on the quoted URI; then the PostInfo is returned
HydratePostDB ==
    LET top == hyd.stack[Len(hyd.stack)]
        row == QuotePosts[top.uri]
    IN
    /\ hyd.stack # <<>>
    /\ hyd' =
         IF ~row.stored
         THEN Returned(hyd.stack, [found |-> FALSE, uri |-> top.uri])
         ELSE IF row.quote # NoQuote /\ top.pc = "load"
         THEN [hyd EXCEPT !.stack = Append(@, Frame(row.quote))]
         ELSE Returned(hyd.stack, [found |-> TRUE, uri |-> top.uri,
                                   likes |-> row.likes, ei |-> top.ei])
    /\ (row.stored /\ row.quote # NoQuote /\ top.pc = "load")
           => Len(hyd.stack) < MaxDepth
    /\ UNCHANGED quoteFrame

NextQuote ==
    \/ \E uri \in DOMAIN QuotePosts : HydratePostCall(uri)
    \/ HydratePostDB

SpecQuote == Init /\ [][NextQuote]_vars

\* C27: hydrating a post that quotes a post hydrates the quoted post and
\* nothing below it: the embeds of the quoted post are not expanded, and the
\* view of the quoted post in the result carries no embed.
C27_QuoteHydratedOneLevelDeep ==
    /\ Len(hyd.stack) <= 2
    /\ \A i \in DOMAIN hyd.out :
          hyd.out[i].found =>
              \A j \in DOMAIN hyd.out[i].ei : "ei" \notin DOMAIN hyd.out[i].ei[j]

\* the URIs whose HydratePost call is in progress, outermost first
InProgress == [i \in DOMAIN hyd.stack |-> hyd.stack[i].uri]

\* C37: HydratePost terminates on every quote chain: no call of HydratePost
\* starts for a URI whose call is still in progress (such a call repeats the
\* calls that led to it and never returns), and the calls in progress are at
\* most the requested post's and its directly quoted post's.
C37_HydratePostTerminates ==
    /\ \A i, j \in DOMAIN InProgress :
          i # j => InProgress[i] # InProgress[j]
    /\ \A i \in DOMAIN InProgress :
          i > 1 => QuotePosts[InProgress[1]].quote = InProgress[i]

----------------------------------------------------------------------------
(* SpecThread: app.bsky.unspecced.getPostThreadV2.  The handler hydrates the
   anchor, loads the rows of the anchor's thread, links them into a tree and
   flattens the tree into a list of items annotated with their depth. *)

MaxBelow == 2
MaxBranching == 2

\* the posts table read by the explored requests, keyed by row id: whether
\* the row is stored (not a placeholder), the row its record replies to
\* (reply_to, 0 for none) and the row of the root its record names
\* (in_thread, 0 for none).  Posts 1..8 and 10 are one thread; 9 is a
\* placeholder created by the reply 10; the record of 11 replies to 2 and
\* names 12, the root of another thread, as its root.
ThreadPosts ==
    <<[stored |-> TRUE,  replyTo |-> 0, inThread |-> 0],
      [stored |-> TRUE,  replyTo |-> 1, inThread |-> 1],
      [stored |-> TRUE,  replyTo |-> 2, inThread |-> 1],
      [stored |-> TRUE,  replyTo |-> 3, inThread |-> 1],
      [stored |-> TRUE,  replyTo |-> 3, inThread |-> 1],
      [stored |-> TRUE,  replyTo |-> 3, inThread |-> 1],
      [stored |-> TRUE,  replyTo |-> 4, inThread |-> 1],
      [stored |-> TRUE,  replyTo |-> 7, inThread |-> 1],
      [stored |-> FALSE, replyTo |-> 0, inThread |-> 0],
      [stored |-> TRUE,  replyTo |-> 9, inThread |-> 1],
      [stored |-> TRUE,  replyTo |-> 2, inThread |-> 12],
      [stored |-> TRUE,  replyTo |-> 0, inThread |-> 0]>>

\* threadID: the thread of the anchor, the anchor itself when it names none
threadID(anchor) ==
    IF ThreadPosts[anchor].inThread = 0
    THEN anchor
    ELSE ThreadPosts[anchor].inThread

\* SELECT * FROM posts WHERE in_thread = threadID OR id = anchor
threadPosts(anchor) ==
    {id \in DOMAIN ThreadPosts :
        ThreadPosts[id].inThread = threadID(anchor) \/ id = anchor}

\* buildThreadTree: one node per loaded row; a node whose reply_to is not a
\* loaded row gets a parent node marked missing, named by the parent
\* reference of its record; children are the loaded rows replying to a node
buildThreadTree(posts) ==
    [id \in posts |->
        [parent   |-> ThreadPosts[id].replyTo,
         missing  |-> /\ ThreadPosts[id].replyTo # 0
                      /\ ThreadPosts[id].replyTo \notin posts,
         children |-> {c \in posts : ThreadPosts[c].replyTo = id}]]

\* buildThreadItem: a not-found item for a missing node and for a row
\* HydratePostDB does not find, a post item otherwise
buildThreadItem(id, missing, depth) ==
    [id |-> id, depth |-> depth,
     found |-> ~missing /\ ThreadPosts[id].stored]

\* the loop over the parents of the anchor: it ends at a node without parent
\* and, after listing it, at a missing node
RECURSIVE collectParents(_, _, _)
collectParents(tree, id, depth) ==
    IF tree[id].parent = 0
    THEN <<>>
    ELSE IF tree[id].missing
    THEN <<buildThreadItem(tree[id].parent, TRUE, depth)>>
    ELSE <<buildThreadItem(tree[id].parent, FALSE, depth)>>
             \o collectParents(tree, tree[id].parent, depth - 1)

\* the depth budget collectReplies hands to the call for a child
belowForChildrenSame(below) == below
belowForChildren(below) == below - 1

\* collectReplies: nothing when the budget is used up; otherwise every child
\* of the node at depth + 1, each followed by its own replies.  The children
\* are taken in the order of their ids here; the code takes them in the order
\* buildThreadTree appended them, which is the order of a map iteration.
RECURSIVE collectReplies(_, _, _, _, _)
RECURSIVE collectChildren(_, _, _, _, _)
collectReplies(tree, id, depth, below, branchingFactor) ==
    IF below = 0
    THEN <<>>
    ELSE collectChildren(tree, tree[id].children, depth, below,
                         branchingFactor)

collectChildren(tree, children, depth, below, branchingFactor) ==
    IF children = {}
    THEN <<>>
    ELSE LET child == CHOOSE c \in children : \A o \in children : c <= o
         IN  <<buildThreadItem(child, FALSE, depth + 1)>>
             \o collectReplies(tree, child, depth + 1,
                               belowForChildren(below), branchingFactor)
             \o collectChildren(tree, children \ {child}, depth, below,
                                branchingFactor)

\* the items of the answer: parents, anchor, replies
threadItems(anchor, above, below, branchingFactor) ==
    LET tree == buildThreadTree(threadPosts(anchor))
    IN  (IF above THEN collectParents(tree, anchor, -1) ELSE <<>>)
        \o <<buildThreadItem(anchor, FALSE, 0)>>
        \o (IF below > 0
            THEN collectReplies(tree, anchor, 0, below, branchingFactor)
            ELSE <<>>)

\* HandleGetPostThreadV2: 404 when HydratePost does not find the anchor,
\* otherwise the items and hasOtherReplies, which is set to false and not
\* assigned again
HandleGetPostThreadV2(anchor, above, below, branchingFactor) ==
    /\ thr' =
         IF ~ThreadPosts[anchor].stored
         THEN [status |-> "NotFound", anchor |-> anchor, above |-> above,
               below |-> below, branchingFactor |-> branchingFactor,
               items |-> <<>>, hasOtherReplies |-> FALSE]
         ELSE [status |-> "OK", anchor |-> anchor, above |-> above,
               below |-> below, branchingFactor |-> branchingFactor,
               items |-> threadItems(anchor, above, below, branchingFactor),
               hasOtherReplies |-> FALSE]
    /\ UNCHANGED <<db, backend, last, nops, hist, sched, fetcher, tail,
                   seqTrackers, run, reg, look, miss, stop, conn, watch,
                   curs, evt, hyd, act, page, dup>>

NextThread ==
    \E anchor \in DOMAIN ThreadPosts, above \in BOOLEAN,
       below \in 0..MaxBelow, branchingFactor \in 1..MaxBranching :
        HandleGetPostThreadV2(anchor, above, below, branchingFactor)

SpecThread == Init /\ [][NextThread]_vars

\* the row i replies above a row in the posts table, 0 when the chain of
\* reply_to ends before
RECURSIVE AncestorOf(_, _)
AncestorOf(id, i) ==
    IF id = 0 \/ i = 0
    THEN id
    ELSE AncestorOf(ThreadPosts[id].replyTo, i - 1)

\* the ids the answer lists at a depth
ListedAt(depth) ==
    {thr.items[k].id : k \in {j \in DOMAIN thr.items :
                                  thr.items[j].depth = depth}}

\* the depth annotations are right: depth 0 is the anchor and only the
\* anchor, an item at depth -i is the i-th ancestor, an item at depth d > 0
\* is a reply d levels under the anchor with d <= below
DepthsAreRight ==
    /\ ListedAt(0) = {thr.anchor}
    /\ \A k \in DOMAIN thr.items :
          LET it == thr.items[k]
          IN  /\ it.depth < 0 => it.id = AncestorOf(thr.anchor, -it.depth)
              /\ it.depth > 0 =>
                    /\ it.depth <= thr.below
                    /\ AncestorOf(it.id, it.depth) = thr.anchor
    /\ \A k1, k2 \in DOMAIN thr.items :
          thr.items[k1].id = thr.items[k2].id => k1 = k2

LoadedUpTo(i) ==
    \A j \in 1..(i - 1) :
        AncestorOf(thr.anchor, j) \in threadPosts(thr.anchor)

ListedChildren(k) ==
    {j \in DOMAIN thr.items :
        /\ thr.items[j].depth = thr.items[k].depth + 1
        /\ ThreadPosts[thr.items[j].id].replyTo = thr.items[k].id}

\* C29: no node of the answer has more than branchingFactor children listed.
C29_AtMostBranchingFactorChildren ==
    thr.status = "OK" =>
        \A k \in DOMAIN thr.items :
            thr.items[k].depth >= 0 =>
                Cardinality(ListedChildren(k)) <= thr.branchingFactor

\* the rows of the loaded thread under the anchor that the answer leaves out
OmittedReplies ==
    {id \in threadPosts(thr.anchor) :
        /\ \E d \in 1..Len(ThreadPosts) : AncestorOf(id, d) = thr.anchor
        /\ \A k \in DOMAIN thr.items : thr.items[k].id # id}

\* C30: hasOtherReplies is true whenever a reply under the anchor was left
\* out of the answer because of the depth limit or the branching factor.
C30_OmittedRepliesAreFlagged ==
    (thr.status = "OK" /\ OmittedReplies # {}) => thr.hasOtherReplies

----------------------------------------------------------------------------
(* SpecProfile: commits that create and update the profile of the principal,
   and HydrateActor reading it. *)

profileFrame ==
    <<last, nops, hist, sched, fetcher, tail, seqTrackers, run, reg, look,
      miss, stop, conn, watch, curs, evt, hyd, thr, page, dup>>

MaxProfileOps == 4

\* the op of the k-th explored commit on the principal's profile record; the
\* record's bytes are told apart by k
ProfileOp(action, k, r) ==
    [action |-> action, rev |-> <<r>>, did |-> MyDid, col |-> ColProfile,
     rkey |-> "self", rec |-> DidRec(k, "")]

\* HandleEvent on a commit with one profile op
ProfileCommit(action, r) ==
    /\ act.n < MaxProfileOps
    /\ LET returned(g, rows) ==
               /\ db' = g.db
               /\ backend' = g.b
               /\ act' = [n |-> act.n + 1,
                          latest |-> IF rows # {} THEN act.n + 1
                                     ELSE act.latest,
                          updated |-> IF rows # {} THEN action = "update"
                                      ELSE act.updated,
                          read |-> FALSE, profile |-> 0]
           applied(g) == returned(g, g.db.profiles \ db.profiles)
       IN applied(HandleOp(Cur, ProfileOp(action, act.n + 1, r)))
    /\ UNCHANGED profileFrame

\* the rows `SELECT repo, raw FROM profiles WHERE repo = (SELECT id FROM
\* repos WHERE did = ?)` returns
ProfileRows(did) ==
    {q \in db.profiles : q.repo = RepoRowID(did)}

\* the rows Scan may put into dbProfile: the statement does not order them
Scanned(rows) == rows

\* HydrateActor of an actor with profile rows: the query has no ORDER BY and
\* Scan fills the struct from one row of the result, whichever the database
\* returns first
HydrateActorProfile(did) ==
    /\ ProfileRows(did) # {}
    /\ \E q \in Scanned(ProfileRows(did)) :
          act' = [act EXCEPT !.read = TRUE, !.profile = q.raw]
    /\ UNCHANGED <<db, backend>>
    /\ UNCHANGED profileFrame

NextProfile ==
    \/ \E action \in {"create", "update"}, r \in 1..MaxProfileOps :
          ProfileCommit(action, r)
    \/ HydrateActorProfile(MyDid)

SpecProfile == Init /\ [][NextProfile]_vars

\* C31: after a profile update has been applied, actor hydration returns the
\* bytes of the profile applied last and never an earlier version.
C31_HydrationReturnsLatestProfile ==
    (act.read /\ act.updated) => act.profile = act.latest

----------------------------------------------------------------------------
(* SpecNotif: handlers of different repos append notifications for the
   principal, then a client pages through app.bsky.notification
   .listNotifications (and /api/notifications, which runs the same query with
   limit 50).  A row gets its created_at when AddNotification builds it and
   its id when the INSERT runs. *)

notifFrame ==
    <<db, backend, last, nops, hist, sched, fetcher, tail, seqTrackers, run,
      reg, look, miss, stop, conn, watch, curs, evt, hyd, thr, act, dup>>

MaxNotifs == 4
MaxLimit == 3

\* the goroutines inside AddNotification at the same time: one worker of the
\* parallel scheduler per repo
Writers == 1..NumWriters

\* AddNotification builds the row: created_at is the time of the call
AddNotificationStamp(w) ==
    /\ ~page.paging
    /\ page.stamp[w] = 0
    /\ page.clock <= MaxNotifs
    /\ page' = [page EXCEPT !.stamp[w] = page.clock, !.clock = @ + 1]
    /\ UNCHANGED notifFrame

\* the INSERT of the row: the table's sequence gives the id
AddNotificationInsert(w) ==
    /\ page.stamp[w] # 0
    /\ page' = [page EXCEPT
                  !.rows = @ \cup {[id |-> page.nextId,
                                    createdAt |-> page.stamp[w]]},
                  !.nextId = @ + 1,
                  !.stamp[w] = 0]
    /\ UNCHANGED notifFrame

\* the rows of `... WHERE n.for = ? [AND n.id < cursor] ORDER BY
\* n.created_at DESC LIMIT limit`, as the sequence of their ids
RECURSIVE OrderByCreatedAtDesc(_, _)
OrderByCreatedAtDesc(rows, limit) ==
    IF rows = {} \/ limit = 0
    THEN <<>>
    ELSE LET first == CHOOSE q \in rows :
                          \A o \in rows : o.createdAt <= q.createdAt
         IN  <<first.id>> \o OrderByCreatedAtDesc(rows \ {first}, limit - 1)

\* HandleListNotifications with the cursor of the page before: the filter on
\* the id when the cursor is positive, the ordered and limited rows, the id
\* of the last row as the next cursor; a page without rows carries no cursor
HandleListNotifications(limit) ==
    /\ page.more
    /\ \A w \in Writers : page.stamp[w] = 0
    /\ LET rows == IF page.cursor > 0
                   THEN {q \in page.rows : q.id < page.cursor}
                   ELSE page.rows
           listed(ids) ==
               page' = [page EXCEPT
                          !.paging = TRUE,
                          !.seen = @ \o ids,
                          !.more = ids # <<>>,
                          !.cursor = IF ids # <<>> THEN ids[Len(ids)] ELSE @]
       IN listed(OrderByCreatedAtDesc(rows, limit))
    /\ UNCHANGED notifFrame

NextNotif ==
    \/ \E w \in Writers : AddNotificationStamp(w)
    \/ \E w \in Writers : AddNotificationInsert(w)
    \/ \E limit \in 1..MaxLimit : HandleListNotifications(limit)

SpecNotif == Init /\ [][NextNotif]_vars

\* C32: the notifications of a recipient are listed in descending id order,
\* and a client that pages with the returned cursor until a page is empty
\* has received every notification exactly once.
C32_PagingListsEveryNotificationOnce ==
    /\ \A i, j \in DOMAIN page.seen :
          i < j => page.seen[i] > page.seen[j]
    /\ ~page.more =>
          {page.seen[i] : i \in DOMAIN page.seen} = {q.id : q \in page.rows}

----------------------------------------------------------------------------
(* SpecDup: the create of one post handled by several goroutines at the same
   time: workers of the schedulers of different stream backends, which go
   through HandleCreate, and the missing-record fetcher, which calls
   HandleCreatePost from fetchMissingPost.  A goroutine may be suspended
   between checkPostExists and the rest of HandleCreatePost. *)

dupFrame ==
    <<last, nops, hist, sched, fetcher, tail, seqTrackers, run, reg, look,
      miss, stop, conn, watch, curs, evt, hyd, thr, act, page>>

CreatorKinds == {"worker", "fetcher"}

\* the posts whose create is explored: a reply to the principal's post and a
\* post that mentions the principal
DupRkeys == {"r1", "r3"}

DupOp(rkey, rev) ==
    LET x == CHOOSE x \in Records : x.col = ColPost /\ x.rkey = rkey
    IN [action |-> "create", rev |-> rev, did |-> x.did, col |-> x.col,
        rkey |-> x.rkey, rec |-> x.rec]

DupReturn(c) == [dup EXCEPT !.call[c].pc = "done"]

\* a goroutine starts on the create: a worker runs HandleCreate up to
\* checkPostExists, the fetcher runs fetchMissingPost up to checkPostExists
CreateBegin(c, kind, rkey, rev) ==
    /\ dup.call[c].pc = "idle"
    /\ dup.rkey \in {"", rkey}
    /\ LET op == DupOp(rkey, rev)
           started == [dup EXCEPT !.rkey = rkey,
                                  !.call[c] = [pc |-> "create", kind |-> kind,
                                               op |-> op]]
           returned(h) ==
               /\ db' = h.db
               /\ backend' = h.b
               /\ dup' = [started EXCEPT !.call[c].pc = "done"]
           suspended(s) ==
               /\ db' = s.db
               /\ backend' = s.b
               /\ dup' = started
           checked(g) ==
               IF g.stale THEN returned(Ret(g.s, "dropped"))
               ELSE IF checkPostExists(g.s, RepoID(g.s, op.did), rkey)
               THEN returned(IF kind = "worker"
                             THEN handled(Ret(g.s, "ok"), op)
                             ELSE Ret(g.s, "ok"))
               ELSE suspended(g.s)
       IN IF kind = "worker"
          THEN checked(revCheckCreate(Cur, op))
          ELSE checked([s |-> getOrCreateRepo(
                                 [Cur EXCEPT !.b.relevantDids =
                                                 @ \cup {op.did}], op.did),
                        stale |-> FALSE])
    /\ UNCHANGED dupFrame

\* the goroutine runs the rest of HandleCreatePost and returns; a worker
\* then adds the rev to the cache
CreateFinish(c) ==
    /\ dup.call[c].pc = "create"
    /\ LET op == dup.call[c].op
           returned(h) ==
               /\ db' = h.db
               /\ backend' = h.b
           created(h) ==
               returned(IF dup.call[c].kind = "worker"
                        THEN handled(h, op) ELSE h)
       IN created(createPostChecked(Cur, Repo(Cur, op.did), op.rkey, op.rec))
    /\ dup' = DupReturn(c)
    /\ UNCHANGED dupFrame

NextDup ==
    \/ \E c \in 1..NumCreators, kind \in CreatorKinds, rkey \in DupRkeys,
          rev \in Revs : CreateBegin(c, kind, rkey, rev)
    \/ \E c \in 1..NumCreators : CreateFinish(c)

SpecDup == Init /\ [][NextDup]_vars

\* the rows of the posts table for the post whose create is handled
DupRows ==
    {p \in db.posts :
        /\ p.rkey = dup.rkey
        /\ DidOfRepo(db, p.author) = DupOp(dup.rkey, <<>>).did}

\* C33: a create of one post handled by two goroutines at the same time
\* leaves a single Post row and at most one notification of each kind for
\* the post.
C33_ConcurrentCreateOneRowOneNotification ==
    dup.rkey # "" =>
        /\ Cardinality(DupRows) <= 1
        /\ \A kind \in {NotifKindReply, NotifKindMention} :
              Cardinality(NotifsFor(db, kind,
                                    AtUri(DupOp(dup.rkey, <<>>).did, ColPost,
                                          dup.rkey))) <= 1

====
